---- MODULE Spec2Model ----
(***************************************************************************)
(* A model of the candidate screening core of the recruitment backend:    *)
(*   - ml/matching_engine.py     MatchingEngine (scores and screening)    *)
(*   - services/cv_parser_service.py  CVParserService (parse_cv and the   *)
(*                                    experience date arithmetic)         *)
(*                                                                         *)
(* Conventions.                                                            *)
(*   - Python strings are TLA+ strings, read as sequences of characters.  *)
(*   - A score is a Python float with two decimals; the model keeps it in *)
(*     hundredths, as an integer (72.5 is 7250).                          *)
(*   - None is the empty string for an optional string: the code tests   *)
(*     these values for falsiness only.                                   *)
(*   - A call that raises is a record [raises |-> TRUE, ...].            *)
(***************************************************************************)
EXTENDS Integers, Sequences, FiniteSets, TLC

VARIABLES
    candidate,        \* the candidate dict handed to the MatchingEngine
    job,              \* the job dict handed to the MatchingEngine
    match_scores,     \* the dict returned by calculate_match_score
    status,           \* the status returned by screen_candidate
    screening_notes,  \* the notes returned by screen_candidate
    phase,            \* position of the scoring pipeline: "input", then "scored"
                      \* (or "given": scores handed in), then "screened", or
                      \* "raised" when screen_candidate raises
    section,          \* the experience section of the CV text, as tokens
    current_year,     \* datetime.now().year
    extractors,       \* what each sub-extraction of parse_cv does on the text
    date_ranges,      \* the list returned by _extract_date_ranges
    exp_result,       \* the tuple returned by extract_experience
    profile,          \* the dict returned by parse_cv
    parse_pc,         \* position of the parser
    total_calls,      \* the calls of _calculate_total_experience made so far:
                      \* the list each was given and the total it returned
    cv_text,          \* the CV text handed to the SkillAnalyzer
    skills_list,      \* the list returned by analyze_skills
    skill_pc,         \* position of the analyzer
    name_text,        \* the CV text handed to _extract_name
    person_entities,  \* the PERSON entities the recognizer finds in its header
    name_result,      \* what _extract_name returned, and from which strategy
    name_pc,          \* position of the name extraction
    match_results,    \* the committed rows of the match_results table
    requests,         \* the calls of the MatchingService, each in its session
    vectorizer,       \* the fitted state of the engine's one TfidfVectorizer
    calls,            \* the calculate_match_score calls, each on its thread
    now,              \* datetime.now(): its year and its month
    repeat_input,     \* the operation called again and again, and its input
    history,          \* the calls made in a row: the clock at each, its output
    walk_lines,       \* the lines of the CV text handed to extract_experience
    walk_result,      \* the entries and the total extract_experience returned
    walk_pc,          \* position of that call
    candidate_table,  \* the candidates table: status and email by id
    match_table,      \* the match_results table of the whole calls
    last_op           \* the last whole call: what it was and how it ended

scoreVars == <<candidate, job, match_scores, status, screening_notes, phase>>
parseVars == <<section, current_year, extractors, date_ranges, exp_result,
               profile, parse_pc, total_calls>>
skillVars == <<cv_text, skills_list, skill_pc>>
nameVars == <<name_text, person_entities, name_result, name_pc>>
storeVars == <<match_results, requests>>
sharedVars == <<vectorizer, calls>>
repeatVars == <<now, repeat_input, history>>
walkVars == <<walk_lines, walk_result, walk_pc>>
tableVars == <<candidate_table, match_table, last_op>>

\* what an operation of one component leaves alone
notScoreVars == <<walkVars, tableVars, parseVars, skillVars, nameVars, storeVars, sharedVars, repeatVars>>
notParseVars == <<walkVars, tableVars, scoreVars, skillVars, nameVars, storeVars, sharedVars, repeatVars>>
notSkillVars == <<walkVars, tableVars, scoreVars, parseVars, nameVars, storeVars, sharedVars, repeatVars>>
notNameVars == <<walkVars, tableVars, scoreVars, parseVars, skillVars, storeVars, sharedVars, repeatVars>>
notStoreVars == <<walkVars, tableVars, scoreVars, parseVars, skillVars, nameVars, sharedVars, repeatVars>>
notSharedVars ==
    <<scoreVars, parseVars, skillVars, nameVars, storeVars, repeatVars, walkVars,
      tableVars>>
\* a call made again works on the vectorizer too
notRepeatVars ==
    <<scoreVars, parseVars, skillVars, nameVars, storeVars, calls, walkVars,
      tableVars>>
notWalkVars ==
    <<scoreVars, parseVars, skillVars, nameVars, storeVars, sharedVars, repeatVars,
      tableVars>>
notTableVars ==
    <<scoreVars, parseVars, skillVars, nameVars, storeVars, sharedVars, repeatVars,
      walkVars>>
vars == <<candidate, job, match_scores, status, screening_notes, phase,
          section, current_year, extractors, date_ranges, exp_result,
          profile, parse_pc, total_calls, cv_text, skills_list, skill_pc,
          name_text, person_entities, name_result, name_pc,
          match_results, requests, vectorizer, calls,
          now, repeat_input, history, walk_lines, walk_result, walk_pc,
          candidate_table, match_table, last_op>>

(***************************************************************************)
(* Strings                                                                 *)
(***************************************************************************)
UpperChars == "ABCDEFGHIJKLMNOPQRSTUVWXYZ"
LowerChars == "abcdefghijklmnopqrstuvwxyz"
DigitChars == "0123456789"

CharAt(s, i) == SubSeq(s, i, i)

\* c occurs in the character class chars
InClass(c, chars) == \E i \in 1..Len(chars) : CharAt(chars, i) = c

\* the characters of a class, as a set
CharSet(chars) == {CharAt(chars, i) : i \in 1..Len(chars)}

UpperSet == CharSet(UpperChars)

\* the lower-case letter of each upper-case letter
LowerOf ==
    [c \in UpperSet |->
        CharAt(LowerChars, CHOOSE i \in 1..Len(UpperChars) : CharAt(UpperChars, i) = c)]

LowerChar(c) == IF c \in UpperSet THEN LowerOf[c] ELSE c

RECURSIVE Lower(_)
\* str.lower(), by halves
Lower(s) ==
    IF Len(s) = 0 THEN ""
    ELSE IF Len(s) = 1 THEN LowerChar(s)
    ELSE LET mid == Len(s) \div 2
         IN  Lower(SubSeq(s, 1, mid)) \o Lower(SubSeq(s, mid + 1, Len(s)))

\* Python's `a in b` on strings
IsSubstring(a, b) ==
    \E i \in 0..(Len(b) - Len(a)) : SubSeq(b, i + 1, i + Len(a)) = a

RECURSIVE JoinSpace(_)
\* " ".join(strs)
JoinSpace(strs) ==
    IF Len(strs) = 0 THEN ""
    ELSE IF Len(strs) = 1 THEN strs[1]
    ELSE strs[1] \o " " \o JoinSpace(Tail(strs))

\* [f(x) for x in seq]
MapSeq(f(_), seq) == [i \in 1..Len(seq) |-> f(seq[i])]

RECURSIVE SumSeq(_)
SumSeq(seq) == IF Len(seq) = 0 THEN 0 ELSE seq[1] + SumSeq(Tail(seq))

\* number of positions of seq that satisfy P
CountSeq(P(_), seq) == Cardinality({i \in 1..Len(seq) : P(seq[i])})

\* every sequence over S of length at most n
SeqsUpTo(S, n) == UNION {[1..k -> S] : k \in 0..n}

Max(a, b) == IF a >= b THEN a ELSE b
Min(a, b) == IF a <= b THEN a ELSE b

(***************************************************************************)
(* Floats with two decimals                                                *)
(***************************************************************************)
\* round(num/den, 0) for den > 0: to the nearest integer, a tie to the even
\* one (Python's round on a value the float holds exactly).
RoundDiv(num, den) ==
    LET q == num \div den
        r == num - q * den
    IN  IF 2 * r < den THEN q
        ELSE IF 2 * r > den THEN q + 1
        ELSE IF q % 2 = 0 THEN q ELSE q + 1

(***************************************************************************)
(* Optional numbers and the dicts handed to the MatchingEngine             *)
(***************************************************************************)
\* an Optional[int]: None, or a number
NoYears == [none |-> TRUE, value |-> 0]
Years(n) == [none |-> FALSE, value |-> n]

\* The candidate and the job are dicts.  A record holds the values of the
\* keys; `absent` names the numeric keys the dict does not have and `nulls`
\* those whose value is None (the number held under such a key is not read).
\* d.get(key, 0) for a numeric key
GetYears(d, key) ==
    IF key \in d.absent THEN Years(0)
    ELSE IF key \in d.nulls THEN NoYears
    ELSE Years(d[key])

\* the number a test `not x or x == 0` treats x as: None passes it as 0 does
ZeroIfNone(x) == IF x.none THEN 0 ELSE x.value

(***************************************************************************)
(* MatchingEngine: the TF-IDF vectorizer and the skill score               *)
(***************************************************************************)
\* TfidfVectorizer(min_df=1, max_df=0.95): max_df is held in percent.
min_df == 1
max_df_pct == 95

\* \w of the token pattern, on lower-cased text
WordChars == CharSet(LowerChars \o DigitChars \o "_")

\* the words of sklearn's English stop list that the skill names can hold
StopWords == {"go", "and", "of", "the", "to", "in", "with", "for"}

RECURSIVE TokenScan(_, _, _)
\* token_pattern (?u)\b\w\w+\b : the maximal runs of two or more word
\* characters; cur is the run being read.
TokenScan(s, i, cur) ==
    LET flush == IF Len(cur) >= 2 THEN <<cur>> ELSE <<>>
    IN  IF i > Len(s) THEN flush
        ELSE IF CharAt(s, i) \in WordChars
             THEN TokenScan(s, i + 1, cur \o CharAt(s, i))
             ELSE flush \o TokenScan(s, i + 1, "")

\* the analyzer: lowercase=True, tokenize, stop_words='english'
Analyze(doc) ==
    SelectSeq(TokenScan(Lower(doc), 1, ""), LAMBDA w : w \notin StopWords)

\* ngram_range=(1, 2): the tokens, then the pairs of adjacent tokens
Ngrams(tokens) ==
    tokens \o [i \in 1..(Len(tokens) - 1) |-> tokens[i] \o " " \o tokens[i + 1]]

\* the terms of a document, with repetitions
TermsOf(doc) == Ngrams(Analyze(doc))

Range(seq) == {seq[i] : i \in 1..Len(seq)}

\* term frequency of t in a document given by its terms
Tf(t, terms) == CountSeq(LAMBDA u : u = t, terms)

\* document frequency of t in the fitted corpus (documents given by terms)
Df(t, corpus) == CountSeq(LAMBDA terms : t \in Range(terms), corpus)

\* the vocabulary of a fit without max_df: every term is kept
Vocabulary_Unpruned(corpus) ==
    {t \in UNION {Range(corpus[i]) : i \in 1..Len(corpus)} :
        Df(t, corpus) >= min_df}

\* the vocabulary kept by fit: df within [min_df, max_df * n_docs].
\* max_features=500 never prunes: two skill texts hold far fewer terms.
Vocabulary(corpus) ==
    {t \in UNION {Range(corpus[i]) : i \in 1..Len(corpus)} :
        /\ Df(t, corpus) >= min_df
        /\ Df(t, corpus) * 100 <= max_df_pct * Len(corpus)}

\* smoothed idf ln((1+n)/(1+df)) + 1 for a corpus of two documents, in
\* tenths: df = 1 gives 1.405, df = 2 gives 1.0
Idf10(df) == IF df = 1 THEN 14 ELSE 10

TfIdf(t, terms, corpus) == Tf(t, terms) * Idf10(Df(t, corpus))

RECURSIVE SumOver(_, _)
SumOver(f(_), S) ==
    IF S = {} THEN 0
    ELSE LET x == CHOOSE y \in S : TRUE
         IN  f(x) + SumOver(f, S \ {x})

\* floor of the square root
ISqrt(n) == CHOOSE r \in 0..n : r * r <= n /\ (r + 1) * (r + 1) > n

\* cosine_similarity of the two rows of fit_transform, times 30, in
\* hundredths (rounded down); fit raises ValueError on an empty vocabulary,
\* before or after pruning, and the except clause makes that 0
Cosine30(corpus) ==
    LET V   == Vocabulary(corpus)
        both == {t \in V : t \in Range(corpus[1]) /\ t \in Range(corpus[2])}
        dot == SumOver(LAMBDA t : TfIdf(t, corpus[1], corpus) * TfIdf(t, corpus[2], corpus), both)
        n1  == SumOver(LAMBDA t : TfIdf(t, corpus[1], corpus) * TfIdf(t, corpus[1], corpus), V)
        n2  == SumOver(LAMBDA t : TfIdf(t, corpus[2], corpus) * TfIdf(t, corpus[2], corpus), V)
    IN  IF V = {} THEN 0
        ELSE IF both = {} THEN 0
        ELSE Min(3000, (3000 * dot) \div ISqrt(n1 * n2))

\* semantic_score of _calculate_skill_match
SemanticScore(candidate_text, job_text) ==
    IF candidate_text = "" \/ job_text = "" THEN 0
    ELSE Cosine30(<<TermsOf(candidate_text), TermsOf(job_text)>>)

\* _prepare_skill_text
PrepareSkillText(skills) == JoinSpace(MapSeq(Lower, skills))

\* SkillMatched without the test `cand_skill in req_skill`
SkillMatched_OneWay(job_skill, candidate_skill_names) ==
    \E i \in 1..Len(candidate_skill_names) :
        IsSubstring(job_skill, candidate_skill_names[i])

\* a job skill is matched: it is inside a candidate skill, or holds one
SkillMatched(job_skill, candidate_skill_names) ==
    \E i \in 1..Len(candidate_skill_names) :
        \/ IsSubstring(job_skill, candidate_skill_names[i])
        \/ IsSubstring(candidate_skill_names[i], job_skill)

\* number of the job skills that are matched
SkillMatches(job_skills, candidate_skill_names) ==
    CountSeq(LAMBDA s : SkillMatched(s, candidate_skill_names), job_skills)

\* SkillMatchGiven with the weight of the preferred skills given to the
\* required ones when the job lists no preferred skill
SkillMatchGiven_FullWeight(candidate_skills, required_skills, preferred_skills, semantic_score) ==
    LET candidate_skill_names == MapSeq(LAMBDA sk : Lower(sk.name), candidate_skills)
        required_skills_lower  == MapSeq(Lower, required_skills)
        preferred_skills_lower == MapSeq(Lower, preferred_skills)
        nreq   == Len(required_skills_lower)
        npref  == Len(preferred_skills_lower)
        \* exact_match_score = reqNum/reqDen + prefNum/prefDen
        reqNum == IF nreq > 0
                  THEN (IF npref = 0 THEN 7000 ELSE 5000)
                       * SkillMatches(required_skills_lower, candidate_skill_names)
                  ELSE 0
        reqDen == IF nreq > 0 THEN nreq ELSE 1
        prefNum == IF npref > 0
                   THEN 2000 * SkillMatches(preferred_skills_lower, candidate_skill_names)
                   ELSE 0
        prefDen == IF npref > 0 THEN npref ELSE 1
        total_score ==
            RoundDiv(reqNum * prefDen + prefNum * reqDen + semantic_score * reqDen * prefDen,
                     reqDen * prefDen)
    IN  IF Len(candidate_skills) = 0 THEN 0
        ELSE IF nreq = 0 /\ npref = 0 THEN 5000
        ELSE Max(0, Min(10000, total_score))

\* _calculate_skill_match around its try block, in hundredths:
\* semantic_score is what the try block leaves
SkillMatchGiven(candidate_skills, required_skills, preferred_skills, semantic_score) ==
    LET candidate_skill_names == MapSeq(LAMBDA sk : Lower(sk.name), candidate_skills)
        required_skills_lower  == MapSeq(Lower, required_skills)
        preferred_skills_lower == MapSeq(Lower, preferred_skills)
        nreq   == Len(required_skills_lower)
        npref  == Len(preferred_skills_lower)
        \* exact_match_score = reqNum/reqDen + prefNum/prefDen
        reqNum == IF nreq > 0
                  THEN 5000 * SkillMatches(required_skills_lower, candidate_skill_names)
                  ELSE 0
        reqDen == IF nreq > 0 THEN nreq ELSE 1
        prefNum == IF npref > 0
                   THEN 2000 * SkillMatches(preferred_skills_lower, candidate_skill_names)
                   ELSE 0
        prefDen == IF npref > 0 THEN npref ELSE 1
        total_score ==
            RoundDiv(reqNum * prefDen + prefNum * reqDen + semantic_score * reqDen * prefDen,
                     reqDen * prefDen)
    IN  IF Len(candidate_skills) = 0 THEN 0
        ELSE IF nreq = 0 /\ npref = 0 THEN 5000
        ELSE Max(0, Min(10000, total_score))

\* the text of the candidate's skills handed to the vectorizer
CandidateText(candidate_skills) ==
    PrepareSkillText(MapSeq(LAMBDA sk : Lower(sk.name), candidate_skills))

\* the text of the job's skills handed to the vectorizer
JobText(required_skills, preferred_skills) ==
    PrepareSkillText(MapSeq(Lower, required_skills) \o MapSeq(Lower, preferred_skills))

\* _calculate_skill_match, in hundredths
CalculateSkillMatch(candidate_skills, required_skills, preferred_skills) ==
    SkillMatchGiven(candidate_skills, required_skills, preferred_skills,
                    SemanticScore(CandidateText(candidate_skills),
                                  JobText(required_skills, preferred_skills)))

(***************************************************************************)
(* MatchingEngine: experience and education scores                         *)
(***************************************************************************)
\* CalculateExperienceMatch with the upper segment scaled by 100, not 95
CalculateExperienceMatch_Steep(candidate_experience_years, required_experience_years) ==
    LET c == IF required_experience_years < 0 THEN 0 - candidate_experience_years
             ELSE candidate_experience_years
        r == IF required_experience_years < 0 THEN 0 - required_experience_years
             ELSE required_experience_years
    IN  IF required_experience_years = 0 THEN 10000
        ELSE IF candidate_experience_years = 0 THEN 0
        ELSE IF c >= r THEN 10000
        ELSE IF 5 * c >= 4 * r THEN Min(10000, RoundDiv(10000 * c, r))
        ELSE Max(0, RoundDiv(10000 * c, r))

\* _calculate_experience_match, in hundredths.  experience_ratio is the
\* fraction c/r with r > 0 (a negative requirement flips both signs);
\* ratio >= 0.8 is 5 * c >= 4 * r.
CalculateExperienceMatch(candidate_experience_years, required_experience_years) ==
    LET c == IF required_experience_years < 0 THEN 0 - candidate_experience_years
             ELSE candidate_experience_years
        r == IF required_experience_years < 0 THEN 0 - required_experience_years
             ELSE required_experience_years
    IN  IF required_experience_years = 0 THEN 10000
        ELSE IF candidate_experience_years = 0 THEN 0
        ELSE IF c >= r THEN 10000
        \* 80 + (ratio - 0.8) * 95
        ELSE IF 5 * c >= 4 * r THEN Min(10000, RoundDiv(400 * r + 9500 * c, r))
        \* ratio * 100
        ELSE Max(0, RoundDiv(10000 * c, r))

\* self.education_levels, in the order of the dict
education_levels == <<
    [name |-> "high school", value |-> 1],
    [name |-> "diploma",     value |-> 2],
    [name |-> "associate",   value |-> 3],
    [name |-> "bachelor",    value |-> 4],
    [name |-> "bachelor's",  value |-> 4],
    [name |-> "master",      value |-> 5],
    [name |-> "master's",    value |-> 5],
    [name |-> "mba",         value |-> 5],
    [name |-> "phd",         value |-> 6],
    [name |-> "doctorate",   value |-> 6] >>

\* _normalize_education_level: the value of the first level name found
\* inside the lower-cased string, 0 when there is none
NormalizeEducationLevel(education_level) ==
    LET education_lower == Lower(education_level)
        hits == {i \in 1..Len(education_levels) :
                    IsSubstring(education_levels[i].name, education_lower)}
    IN  IF education_level = "" THEN 0
        ELSE IF hits = {} THEN 0
        ELSE education_levels[CHOOSE i \in hits : \A j \in hits : i <= j].value

\* MaxLevel that looks at the first entry only
MaxLevel_First(candidate_education) ==
    IF Len(candidate_education) = 0 THEN 0
    ELSE NormalizeEducationLevel(candidate_education[1].degree)

RECURSIVE MaxLevel(_)
\* the loop over candidate_education: the maximum of the degrees' levels
MaxLevel(candidate_education) ==
    IF Len(candidate_education) = 0 THEN 0
    ELSE Max(NormalizeEducationLevel(candidate_education[1].degree),
             MaxLevel(Tail(candidate_education)))

\* _calculate_education_match, in hundredths
CalculateEducationMatch(candidate_education, required_education_level) ==
    LET required_level      == NormalizeEducationLevel(required_education_level)
        candidate_max_level == MaxLevel(candidate_education)
    IN  IF required_education_level = "" THEN 10000
        ELSE IF Len(candidate_education) = 0 THEN 0
        ELSE IF required_level = 0 THEN 5000
        ELSE IF candidate_max_level = 0 THEN 2000
        ELSE IF candidate_max_level >= required_level THEN 10000
        ELSE IF candidate_max_level = required_level - 1 THEN 7000
        ELSE IF candidate_max_level = required_level - 2 THEN 4000
        ELSE 2000

(***************************************************************************)
(* MatchingEngine: calculate_match_score and screen_candidate              *)
(***************************************************************************)
\* OverallScore with the experience and education weights exchanged
OverallScore_Swapped(skill_score, experience_score, education_score) ==
    RoundDiv(5 * skill_score + 2 * experience_score + 3 * education_score, 10)

\* overall_score = round(skill * 0.5 + experience * 0.3 + education * 0.2, 2)
\* When the weighted sum is exactly halfway between two hundredths the float
\* sum lies an ulp to one side and Python rounds to that side; the model
\* takes the even neighbour there, and no property below depends on it.
OverallScore(skill_score, experience_score, education_score) ==
    RoundDiv(5 * skill_score + 3 * experience_score + 2 * education_score, 10)

\* calculate_match_score after _calculate_skill_match returned skill_score
MatchScoreGiven(cand, jb, skill_score) ==
    LET candidate_experience == GetYears(cand, "total_experience_years")
        min_experience == GetYears(jb, "min_experience_years")
        \* _calculate_experience_match tests `not x or x == 0` on both
        \* numbers before it divides
        experience_score == CalculateExperienceMatch(ZeroIfNone(candidate_experience),
                                                     ZeroIfNone(min_experience))
        education_score == CalculateEducationMatch(cand.education, jb.education_level)
    IN  [match_score            |-> OverallScore(skill_score, experience_score,
                                                 education_score),
         skill_match_score      |-> skill_score,
         experience_match_score |-> experience_score,
         education_match_score  |-> education_score]

\* calculate_match_score
CalculateMatchScoreOf(cand, jb) ==
    MatchScoreGiven(cand, jb,
                    CalculateSkillMatch(cand.skills, jb.required_skills,
                                        jb.preferred_skills))

\* ScreenStatus with the thresholds read as strict
ScreenStatus_Strict(overall_score, skill_score) ==
    IF overall_score > 7000 /\ skill_score > 6000 THEN "Qualified"
    ELSE IF overall_score > 5000 \/ (overall_score > 4000 /\ skill_score > 5000)
         THEN "Potentially Qualified"
    ELSE "Not Qualified"

\* the status decided by screen_candidate
ScreenStatus(overall_score, skill_score) ==
    IF overall_score >= 7000 /\ skill_score >= 6000 THEN "Qualified"
    ELSE IF overall_score >= 5000 \/ (overall_score >= 4000 /\ skill_score >= 5000)
         THEN "Potentially Qualified"
    ELSE "Not Qualified"

\* the summary sentence that goes with a status
ScreenSummary(st) ==
    CASE st = "Qualified" ->
            "Candidate meets the job requirements and is recommended for interview."
      [] st = "Potentially Qualified" ->
            "Candidate shows potential but may need further evaluation."
      [] OTHER ->
            "Candidate does not meet minimum requirements for this position."

\* where an observation of screen_candidate goes
Remark(list, text) == [list |-> list, text |-> text]

\* the observations of screen_candidate, in the order they are appended
ScreenRemarks(cand, jb, scores) ==
    LET skill_score == scores.skill_match_score
        experience_score == scores.experience_match_score
        education_score == scores.education_match_score
        candidate_skill_names == MapSeq(LAMBDA sk : Lower(sk.name), cand.skills)
        required_skills_lower == MapSeq(Lower, jb.required_skills)
        nreq == Len(jb.required_skills)
        matched_required == SkillMatches(required_skills_lower, candidate_skill_names)
        skill ==
            IF skill_score >= 7000 THEN <<Remark("strengths", "Strong skill match")>>
            ELSE IF skill_score >= 5000 THEN <<Remark("notes", "Moderate skill match")>>
            ELSE <<Remark("issues", "Low skill match")>>
        required ==
            IF nreq = 0 THEN <<>>
            ELSE IF matched_required = nreq
                 THEN <<Remark("strengths", "Has all required skills")>>
            ELSE IF 10 * matched_required >= 7 * nreq
                 THEN <<Remark("notes", "Has some required skills")>>
            ELSE <<Remark("issues", "Missing key skills")>>
        min_experience == GetYears(jb, "min_experience_years")
        experience ==
            IF ~(min_experience.value > 0) THEN <<>>
            ELSE IF experience_score >= 10000
                 THEN <<Remark("strengths", "Meets experience requirement")>>
            ELSE IF experience_score >= 8000
                 THEN <<Remark("notes", "Close to experience requirement")>>
            ELSE <<Remark("issues", "Below experience requirement")>>
        education ==
            IF jb.education_level = "" THEN <<>>
            ELSE IF education_score >= 10000
                 THEN <<Remark("strengths", "Meets education requirement")>>
            ELSE IF education_score >= 7000
                 THEN <<Remark("notes", "Education level close to requirement")>>
            ELSE <<Remark("issues", "Does not meet education requirement")>>
    IN  skill \o required \o experience \o education

\* the texts appended to one of the lists strengths, notes, issues
RemarksIn(list, remarks) ==
    MapSeq(LAMBDA r : r.text, SelectSeq(remarks, LAMBDA r : r.list = list))

\* NotesBlock with the header written for an empty list too
NotesBlock_Always(header, items) == <<header>> \o items

\* a block of screening_notes: present when its list is not empty
NotesBlock(header, items) ==
    IF Len(items) = 0 THEN <<>> ELSE <<header>> \o items

\* screen_candidate with the skill test of the second branch turned round
ScreenCandidateOf_Flipped(cand, jb, scores) ==
    LET overall_score == scores.match_score
        skill_score == scores.skill_match_score
        st == IF overall_score >= 7000 /\ skill_score >= 6000 THEN "Qualified"
              ELSE IF overall_score >= 5000
                      \/ (overall_score >= 4000 /\ skill_score < 5000)
                   THEN "Potentially Qualified"
              ELSE "Not Qualified"
        remarks == ScreenRemarks(cand, jb, scores)
    IN  IF GetYears(jb, "min_experience_years").none
        THEN [raises |-> TRUE, status |-> "", screening_notes |-> <<>>]
        ELSE
        [raises |-> FALSE,
         status |-> st,
         screening_notes |->
            <<ScreenSummary(st)>>
            \o NotesBlock("Strengths:", RemarksIn("strengths", remarks))
            \o NotesBlock("Considerations:", RemarksIn("notes", remarks))
            \o NotesBlock("Gaps:", RemarksIn("issues", remarks))
            \o <<"Overall Match Score">>]

\* screen_candidate: (status, screening_notes); the notes are kept as lines.
\* `min_experience > 0` raises TypeError when min_experience is None.
ScreenCandidateOf(cand, jb, scores) ==
    LET st == ScreenStatus(scores.match_score, scores.skill_match_score)
        remarks == ScreenRemarks(cand, jb, scores)
    IN  IF GetYears(jb, "min_experience_years").none
        THEN [raises |-> TRUE, status |-> "", screening_notes |-> <<>>]
        ELSE
        [raises |-> FALSE,
         status |-> st,
         screening_notes |->
            <<ScreenSummary(st)>>
            \o NotesBlock("Strengths:", RemarksIn("strengths", remarks))
            \o NotesBlock("Considerations:", RemarksIn("notes", remarks))
            \o NotesBlock("Gaps:", RemarksIn("issues", remarks))
            \o <<"Overall Match Score">>]

(***************************************************************************)
(* MatchingEngine: fit_transform in steps, on the one shared vectorizer    *)
(***************************************************************************)
\* the characters of a term in the order of their code points
TermChars == " 0123456789_abcdefghijklmnopqrstuvwxyz"
CodeRank(c) == CHOOSE i \in 1..Len(TermChars) : CharAt(TermChars, i) = c

RECURSIVE Before(_, _)
\* a < b for two terms, as sorted() compares strings
Before(a, b) ==
    IF Len(a) = 0 THEN Len(b) > 0
    ELSE IF Len(b) = 0 THEN FALSE
    ELSE IF CharAt(a, 1) = CharAt(b, 1)
         THEN Before(SubSeq(a, 2, Len(a)), SubSeq(b, 2, Len(b)))
    ELSE CodeRank(CharAt(a, 1)) < CodeRank(CharAt(b, 1))

RECURSIVE SortedTerms(_)
\* the feature names: the kept terms in sorted order
SortedTerms(terms) ==
    IF terms = {} THEN <<>>
    ELSE LET least == CHOOSE t \in terms : \A u \in terms \ {t} : Before(t, u)
         IN  <<least>> \o SortedTerms(terms \ {least})

\* CountVectorizer.fit_transform on the corpus: ValueError on an empty
\* vocabulary (before or after pruning), the feature names and the matrix
\* of counts otherwise. The matrix is the call's own; vocabulary_ is set on
\* the vectorizer.
CountMatrix(corpus) ==
    LET features == SortedTerms(Vocabulary(corpus))
    IN  [raises |-> features = <<>>,
         features |-> features,
         X |-> [i \in 1..Len(corpus) |->
                   [k \in 1..Len(features) |-> Tf(features[k], corpus[i])]]]

\* TfidfTransformer.fit(X): the idf of each column, from the number of rows
\* that hold the feature
IdfOf(X) ==
    [k \in 1..Len(X[1]) |-> Idf10(Cardinality({i \in 1..Len(X) : X[i][k] > 0}))]

\* the vectorizer before any fit. The library is not part of the
\* repository: a build of it either makes a new TfidfTransformer at each
\* fit_transform or keeps the one of the constructor.
NotFitted(build) ==
    [build |-> build, fitted |-> FALSE, idf |-> <<>>, vocabulary |-> <<>>]

\* TfidfTransformer.transform(X) on the fitted state it finds:
\* NotFittedError without a fit, ValueError when the fit was for another
\* number of features, the rows scaled by the idf otherwise
TransformOf(X, vectorizer_state) ==
    IF ~vectorizer_state.fitted \/ Len(vectorizer_state.idf) # Len(X[1])
    THEN [raises |-> TRUE, rows |-> <<>>]
    ELSE [raises |-> FALSE,
          rows |-> [i \in 1..Len(X) |->
                       [k \in 1..Len(X[i]) |-> X[i][k] * vectorizer_state.idf[k]]]]

\* the sum over the columns of the products of two rows
DotRows(a, b) == SumOver(LAMBDA k : a[k] * b[k], 1..Len(a))

\* cosine_similarity of the two rows, times 30, in hundredths (rounded down)
CosineRows30(rows) ==
    LET dot == DotRows(rows[1], rows[2])
    IN  IF dot = 0 THEN 0
        ELSE Min(3000, (3000 * dot)
                        \div ISqrt(DotRows(rows[1], rows[1]) * DotRows(rows[2], rows[2])))

\* the try block without its except clause: the exception goes up
SemanticOfTransform_Uncaught(transformed) ==
    IF transformed.raises THEN [raises |-> TRUE, semantic_score |-> 0]
    ELSE [raises |-> FALSE, semantic_score |-> CosineRows30(transformed.rows)]

\* what the try block leaves after transform: `except Exception` makes
\* the semantic score 0
SemanticOfTransform(transformed) ==
    IF transformed.raises THEN [raises |-> FALSE, semantic_score |-> 0]
    ELSE [raises |-> FALSE, semantic_score |-> CosineRows30(transformed.rows)]

\* the vectorizer is reached: the candidate has skills, the job names
\* skills, and neither text is empty
UsesVectorizer(cand, jb) ==
    /\ Len(cand.skills) > 0
    /\ Len(jb.required_skills) + Len(jb.preferred_skills) > 0
    /\ CandidateText(cand.skills) # ""
    /\ JobText(jb.required_skills, jb.preferred_skills) # ""

\* the two documents of a call, by their terms
CorpusOf(cand, jb) ==
    <<TermsOf(CandidateText(cand.skills)),
      TermsOf(JobText(jb.required_skills, jb.preferred_skills))>>

\* the dict calculate_match_score returns once the try block left
\* semantic_score
ScoresGiven(cand, jb, semantic_score) ==
    MatchScoreGiven(cand, jb,
                    SkillMatchGiven(cand.skills, jb.required_skills,
                                    jb.preferred_skills, semantic_score))

\* no scores yet
NoScores ==
    [match_score |-> 0, skill_match_score |-> 0,
     experience_match_score |-> 0, education_match_score |-> 0]

\* a call up to the fit of the idf, on the vectorizer as it finds it: the
\* whole call (returned) when the vectorizer is not reached or the
\* counting raises, which the except clause makes a semantic score of 0
BeginOn(vectorizer_state, cand, jb) ==
    LET counted == CountMatrix(CorpusOf(cand, jb))
        fresh == IF vectorizer_state.build = "new_each_fit"
                 THEN [vectorizer_state EXCEPT !.fitted = FALSE, !.idf = <<>>]
                 ELSE vectorizer_state
    IN  IF ~UsesVectorizer(cand, jb)
        THEN [returned |-> TRUE, vectorizer |-> vectorizer_state, X |-> <<>>,
              match_scores |-> ScoresGiven(cand, jb, 0)]
        ELSE IF counted.raises
        THEN [returned |-> TRUE, vectorizer |-> fresh, X |-> <<>>,
              match_scores |-> ScoresGiven(cand, jb, 0)]
        ELSE [returned |-> FALSE,
              vectorizer |-> [fresh EXCEPT !.vocabulary = counted.features],
              X |-> counted.X, match_scores |-> NoScores]

\* self._tfidf.fit(X): the vectorizer after it
FitOn(vectorizer_state, X) ==
    [vectorizer_state EXCEPT !.fitted = TRUE, !.idf = IdfOf(X)]

\* self._tfidf.transform(X) and the rest of the call
TransformOn(vectorizer_state, X, cand, jb) ==
    LET transformed == TransformOf(X, vectorizer_state)
        left == SemanticOfTransform(transformed)
    IN  [raises |-> left.raises,
         transformed |-> IF transformed.raises THEN "raised" ELSE "scaled",
         match_scores |-> IF left.raises THEN NoScores
                          ELSE ScoresGiven(cand, jb, left.semantic_score)]

\* what a call returns and the vectorizer it leaves, from what its steps
\* gave
ScoreCallEnd(begun, fitted, ended) ==
    IF begun.returned
    THEN [raises |-> FALSE, vectorizer |-> begun.vectorizer,
          match_scores |-> begun.match_scores]
    ELSE [raises |-> ended.raises, vectorizer |-> fitted,
          match_scores |-> ended.match_scores]

\* the fit and the transform of a call that has begun, one after the other
ScoreCallFrom(begun, fitted, cand, jb) ==
    ScoreCallEnd(begun, fitted, TransformOn(fitted, begun.X, cand, jb))

\* calculate_match_score run from its first line to its last on the
\* vectorizer as it finds it
ScoreCallOn(vectorizer_state, cand, jb) ==
    LET begun == BeginOn(vectorizer_state, cand, jb)
    IN  ScoreCallFrom(begun, FitOn(begun.vectorizer, begun.X), cand, jb)

\* the output of calculate_match_score and then screen_candidate
ScoredAndScreened(r, screened) ==
    [raises |-> r.raises \/ screened.raises,
     match_scores |-> r.match_scores,
     status |-> screened.status,
     screening_notes |-> screened.screening_notes]

\* screen_candidate on what calculate_match_score returned
ScoreAndScreenOn(r, cand, jb) ==
    [vectorizer |-> r.vectorizer,
     output |-> ScoredAndScreened(r, ScreenCandidateOf(cand, jb, r.match_scores))]

\* datetime.now().year rounded to the nearer new year
CurrentYear_Rounded(now_read) ==
    IF now_read.month > 6 THEN now_read.year + 1 ELSE now_read.year

\* datetime.now().year
CurrentYear(now_read) == now_read.year

(***************************************************************************)
(* CVParserService: the date ranges of the experience section              *)
(***************************************************************************)
\* The experience section is read as its tokens: the words and the runs of
\* punctuation of the text, in order, with any white space between them.

\* \b(19\d{2}|20\d{2})\b
IsYear(tok) ==
    /\ Len(tok) = 4
    /\ SubSeq(tok, 1, 2) \in {"19", "20"}
    /\ InClass(CharAt(tok, 3), DigitChars)
    /\ InClass(CharAt(tok, 4), DigitChars)

\* [-to]+ under re.IGNORECASE (the en dash of the class is left out)
IsRangeSeparator(tok) ==
    /\ Len(tok) >= 1
    /\ \A i \in 1..Len(tok) : InClass(LowerChar(CharAt(tok, i)), "-to")

\* (19\d{2}|20\d{2}|present|current)
IsRangeEnd(tok) == IsYear(tok) \/ Lower(tok) \in {"present", "current"}

DigitValue(c) == (CHOOSE i \in 1..Len(DigitChars) : CharAt(DigitChars, i) = c) - 1

RECURSIVE ParseInt(_)
\* int(s) on a string of digits
ParseInt(s) ==
    IF Len(s) = 0 THEN 0
    ELSE 10 * ParseInt(SubSeq(s, 1, Len(s) - 1)) + DigitValue(CharAt(s, Len(s)))

RECURSIVE ExtractDateRangesFrom(_, _, _)
\* re.finditer(range_pattern, text): the matches from token i on, left to
\* right and without overlap
ExtractDateRangesFrom(tokens, i, year) ==
    IF i + 2 > Len(tokens) THEN <<>>
    ELSE IF IsYear(tokens[i]) /\ IsRangeSeparator(tokens[i + 1]) /\ IsRangeEnd(tokens[i + 2])
         THEN LET start_year == ParseInt(tokens[i])
                  end_year_str == Lower(tokens[i + 2])
                  end_year == IF end_year_str \in {"present", "current"}
                              THEN year
                              ELSE ParseInt(end_year_str)
              IN  <<(<<start_year, end_year>>)>> \o ExtractDateRangesFrom(tokens, i + 3, year)
    ELSE ExtractDateRangesFrom(tokens, i + 1, year)

\* _extract_date_ranges
ExtractDateRanges(tokens, year) == ExtractDateRangesFrom(tokens, 1, year)

\* the order of Python tuples
TupleLeq(a, b) == a[1] < b[1] \/ (a[1] = b[1] /\ a[2] <= b[2])

\* Sorted that leaves the list as it is
Sorted_AsGiven(ranges) == ranges

RECURSIVE Sorted(_)
\* sorted(date_ranges)
Sorted(ranges) ==
    IF Len(ranges) <= 1 THEN ranges
    ELSE LET rest == Sorted(Tail(ranges))
             x == Head(ranges)
             k == Cardinality({j \in 1..Len(rest) : ~TupleLeq(x, rest[j])})
         IN  SubSeq(rest, 1, k) \o <<x>> \o SubSeq(rest, k + 1, Len(rest))

RECURSIVE MergeRanges(_, _, _)
\* the merge loop: rest is what is left of the sorted list
MergeRanges(rest, current_start, current_end) ==
    IF Len(rest) = 0 THEN <<(<<current_start, current_end>>)>>
    ELSE LET start == rest[1][1]
             end == rest[1][2]
         IN  IF start <= current_end
             THEN MergeRanges(Tail(rest), current_start, Max(current_end, end))
             ELSE <<(<<current_start, current_end>>)>> \o MergeRanges(Tail(rest), start, end)

\* merged_ranges of _calculate_total_experience
MergedRanges(ranges) ==
    LET sorted == Sorted(ranges)
    IN  IF Len(ranges) = 0 THEN <<>>
        ELSE MergeRanges(Tail(sorted), sorted[1][1], sorted[1][2])

\* _calculate_total_experience
CalculateTotalExperience(ranges) ==
    SumSeq(MapSeq(LAMBDA r : r[2] - r[1], MergedRanges(ranges)))

(***************************************************************************)
(* CVParserService: extract_experience, extract_contact_info and parse_cv  *)
(***************************************************************************)
\* What a sub-extraction does on the text is an input of the model: it
\* raises (self.nlp raising, a text that is no string, ...) or it returns
\* a value.  `ex` is the record of these outcomes, one per sub-extraction.

\* extract_experience: no section gives ([], 0); the entries are those the
\* walk over the lines of the section finds
ExtractExperience(ex, tokens, year) ==
    IF Len(tokens) = 0 THEN [raises |-> FALSE, experience |-> <<>>, total_years |-> 0]
    ELSE IF ex.experience.raises
         THEN [raises |-> TRUE, experience |-> <<>>, total_years |-> 0]
    ELSE [raises |-> FALSE,
          experience |-> ex.experience.value,
          total_years |-> CalculateTotalExperience(ExtractDateRanges(tokens, year))]

\* extract_contact_info: _extract_email, _extract_phone and _extract_name
\* in a row, none of them inside a try
ExtractContactInfo(ex) ==
    IF ex.email.raises \/ ex.phone.raises \/ ex.name.raises
    THEN [raises |-> TRUE, name |-> "", email |-> "", phone |-> ""]
    ELSE [raises |-> FALSE,
          name |-> ex.name.value, email |-> ex.email.value, phone |-> ex.phone.value]

\* degree_level_map of extract_education, in the order of the dict
degree_level_map == <<
    [keyword |-> "phd",           level |-> "PhD"],
    [keyword |-> "doctor",        level |-> "PhD"],
    [keyword |-> "doctorate",     level |-> "PhD"],
    [keyword |-> "master",        level |-> "Master's"],
    [keyword |-> "mba",           level |-> "Master's"],
    [keyword |-> "bachelor",      level |-> "Bachelor's"],
    [keyword |-> "undergraduate", level |-> "Bachelor's"],
    [keyword |-> "associate",     level |-> "Associate's"],
    [keyword |-> "diploma",       level |-> "Diploma"],
    [keyword |-> "certificate",   level |-> "Certificate"] >>

\* _determine_education_level: the level of the first keyword found inside
\* the lower-cased degree, 'Other' when there is none
DetermineEducationLevel(degree) ==
    LET degree_lower == Lower(degree)
        hits == {i \in 1..Len(degree_level_map) :
                    IsSubstring(degree_level_map[i].keyword, degree_lower)}
    IN  IF hits = {} THEN "Other"
        ELSE degree_level_map[CHOOSE i \in hits : \A j \in hits : i <= j].level

\* the degree and the level of an entry extract_education builds for a
\* degree text its patterns match
EducationEntry(degree) ==
    [degree |-> degree, level |-> DetermineEducationLevel(degree)]

\* extract_education
ExtractEducation(ex) ==
    IF ex.education.raises THEN [raises |-> TRUE, value |-> <<>>]
    ELSE [raises |-> FALSE, value |-> ex.education.value]

\* the profile dict parse_cv starts from
EmptyProfile ==
    [name |-> "", email |-> "", phone |-> "",
     education |-> <<>>, experience |-> <<>>, total_experience_years |-> 0,
     extraction_status |-> "success", extraction_errors |-> <<>>]

\* an except clause of parse_cv
Failed(p, message) ==
    [p EXCEPT !.extraction_errors = Append(@, message),
              !.extraction_status = "partial"]

\* a block of parse_cv hands on the profile, or lets an exception through
Through(p) == [raises |-> FALSE, profile |-> p]
Raised(p) == [raises |-> TRUE, profile |-> p]

\* ContactBlock that keeps an email found before the exception
ContactBlock_KeepsEmail(p, ex) ==
    LET contact_info == ExtractContactInfo(ex)
    IN  IF contact_info.raises
        THEN Through([Failed(p, "Contact info extraction failed")
                         EXCEPT !.email = IF ex.email.raises THEN "" ELSE ex.email.value])
        ELSE Through([p EXCEPT !.name = contact_info.name,
                               !.email = contact_info.email,
                               !.phone = contact_info.phone])

\* try: extract_contact_info ... except Exception
ContactBlock(p, ex) ==
    LET contact_info == ExtractContactInfo(ex)
    IN  IF contact_info.raises
        THEN Through(Failed(p, "Contact info extraction failed"))
        ELSE Through([p EXCEPT !.name = contact_info.name,
                               !.email = contact_info.email,
                               !.phone = contact_info.phone])

\* try: extract_education ... except Exception
EducationBlock(p, ex) ==
    LET education == ExtractEducation(ex)
    IN  IF education.raises
        THEN Through(Failed(p, "Education extraction failed"))
        ELSE Through([p EXCEPT !.education = education.value])

\* ExperienceBlock without its try
ExperienceBlock_Unguarded(p, ex, tokens, year) ==
    LET r == ExtractExperience(ex, tokens, year)
    IN  IF r.raises
        THEN Raised(p)
        ELSE Through([p EXCEPT !.experience = r.experience,
                               !.total_experience_years = r.total_years])

\* try: extract_experience ... except Exception
ExperienceBlock(p, ex, tokens, year) ==
    LET r == ExtractExperience(ex, tokens, year)
    IN  IF r.raises
        THEN Through(Failed(p, "Experience extraction failed"))
        ELSE Through([p EXCEPT !.experience = r.experience,
                               !.total_experience_years = r.total_years])

\* FinalStatus whose missing-name-and-email check only downgrades to partial
FinalStatus_Partial(p) ==
    LET critical ==
            IF p.name = "" /\ p.email = ""
            THEN [p EXCEPT !.extraction_status = "partial",
                           !.extraction_errors =
                               Append(@, "Critical information missing: name and email")]
            ELSE p
    IN  IF Len(critical.extraction_errors) >= 3
        THEN [critical EXCEPT !.extraction_status = "failed"]
        ELSE critical

\* the two checks that end parse_cv
FinalStatus(p) ==
    LET critical ==
            IF p.name = "" /\ p.email = ""
            THEN [p EXCEPT !.extraction_status = "failed",
                           !.extraction_errors =
                               Append(@, "Critical information missing: name and email")]
            ELSE p
    IN  IF Len(critical.extraction_errors) >= 3
        THEN [critical EXCEPT !.extraction_status = "failed"]
        ELSE critical

\* parse_cv: the three blocks in order, then the final checks
ParseCvOf(ex, tokens, year) ==
    LET b1 == ContactBlock(EmptyProfile, ex)
        b2 == IF b1.raises THEN b1 ELSE EducationBlock(b1.profile, ex)
        b3 == IF b2.raises THEN b2 ELSE ExperienceBlock(b2.profile, ex, tokens, year)
    IN  IF b3.raises THEN b3 ELSE Through(FinalStatus(b3.profile))

(***************************************************************************)
(* SkillAnalyzer: the taxonomy and the regular expressions                 *)
(***************************************************************************)
\* A Python dict is the sequence of its items [key, value] in insertion
\* order: assigning to a key that is there keeps its place.
DictHas(d, k) == \E i \in 1..Len(d) : d[i].key = k

DictPut(d, k, v) ==
    IF DictHas(d, k)
    THEN [i \in 1..Len(d) |-> IF d[i].key = k THEN [key |-> k, value |-> v] ELSE d[i]]
    ELSE Append(d, [key |-> k, value |-> v])

\* self.skill_categories: some skills of three of the categories, in the
\* order of the source; AWS, Google Cloud and GCP are declared under tools
\* and under cloud_platforms
skill_categories == <<
    [category |-> "programming_languages", skills |-> <<"Python", "JavaScript", "Rust">>],
    [category |-> "tools",                 skills |-> <<"Git", "AWS", "Google Cloud", "GCP">>],
    [category |-> "cloud_platforms",       skills |-> <<"AWS", "Google Cloud", "GCP">>] >>

\* the pairs (category, skill) in the order the loops of __init__ visit them
TaxonomyItems ==
    LET items(c) == [i \in 1..Len(c.skills) |->
                        [category |-> c.category, name |-> c.skills[i]]]
    IN  items(skill_categories[1]) \o items(skill_categories[2])
        \o items(skill_categories[3])

RECURSIVE BuildSkillsLower(_, _)
BuildSkillsLower(items, d) ==
    IF Len(items) = 0 THEN d
    ELSE BuildSkillsLower(Tail(items),
                          DictPut(d, Lower(items[1].name),
                                  [name |-> items[1].name,
                                   category |-> items[1].category]))

\* self.all_skills_lower
all_skills_lower == BuildSkillsLower(TaxonomyItems, <<>>)

\* self.skill_aliases: some of the aliases, in the order of the source
skill_aliases == <<
    [alias |-> "js",  name |-> "JavaScript"],
    [alias |-> "py",  name |-> "Python"],
    [alias |-> "aws", name |-> "AWS"],
    [alias |-> "gcp", name |-> "Google Cloud"] >>

\* _get_skill_category: the first category that lists the name; "" is None
GetSkillCategory(skill_name) ==
    LET hits == {i \in 1..Len(TaxonomyItems) : TaxonomyItems[i].name = skill_name}
    IN  IF hits = {} THEN ""
        ELSE TaxonomyItems[CHOOSE i \in hits : \A j \in hits : i <= j].category

\* s[m..n], cut to the string
Sub(s, m, n) == SubSeq(s, Max(1, m), Min(Len(s), n))

\* position p of a lower-cased string holds a \w character
IsWordAt(s, p) == p >= 1 /\ p <= Len(s) /\ CharAt(s, p) \in WordChars

\* \b just before position p
Boundary(s, p) == IsWordAt(s, p - 1) # IsWordAt(s, p)

\* \b + re.escape(word) + \b matches at position i of s
WordMatchAt(word, s, i) ==
    /\ i + Len(word) - 1 <= Len(s)
    /\ SubSeq(s, i, i + Len(word) - 1) = word
    /\ Boundary(s, i)
    /\ Boundary(s, i + Len(word))

RECURSIVE FindAllFrom(_, _, _)
\* re.finditer: the starts of the matches from position i on, left to right
\* and without overlap
FindAllFrom(word, s, i) ==
    LET starts == {j \in i..Len(s) : WordMatchAt(word, s, j)}
        first == CHOOSE j \in starts : \A k \in starts : j <= k
    IN  IF starts = {} THEN <<>>
        ELSE <<first>> \o FindAllFrom(word, s, first + Len(word))

\* the mentions of a word in a lower-cased text
Mentions(word, s) == FindAllFrom(word, s, 1)

\* re.search(pattern, text.lower())
Search(word, s) == \E i \in 1..Len(s) : WordMatchAt(word, s, i)

\* text_lower[max(0, match.start() - before):min(len, match.end() + after)]
\* for a match of n characters at (1-based) position start
Context(s, start, n, before, after) ==
    Sub(s, start - before, start + n - 1 + after)

WhiteSpace == {" ", "\n", "\t"}
DigitSet == CharSet(DigitChars)

\* the last position of the run of digits that starts at i
RunEnd(s, i) ==
    CHOOSE j \in i..Len(s) :
        /\ \A k \in i..j : CharAt(s, k) \in DigitSet
        /\ (j = Len(s) \/ CharAt(s, j + 1) \notin DigitSet)

\* the first position from p on that holds no white space
SkipSpace(s, p) ==
    CHOOSE q \in p..(Len(s) + 1) :
        /\ \A k \in p..(q - 1) : CharAt(s, k) \in WhiteSpace
        /\ (q = Len(s) + 1 \/ CharAt(s, q) \notin WhiteSpace)

\* \+?\s*(?:years?|yrs?) matches right after position j
YearsSuffix(s, j) ==
    LET p == IF j + 1 <= Len(s) /\ CharAt(s, j + 1) = "+" THEN j + 2 ELSE j + 1
        q == IF p > Len(s) THEN p ELSE SkipSpace(s, p)
    IN  Sub(s, q, q + 3) = "year" \/ Sub(s, q, q + 1) = "yr"

\* re.findall(r'(\d+)\+?\s*(?:years?|yrs?)', context), as a set: a run of
\* digits matches whole or not at all
YearsIn(s) ==
    {ParseInt(SubSeq(s, i, RunEnd(s, i))) :
        i \in {j \in 1..Len(s) :
                  /\ CharAt(s, j) \in DigitSet
                  /\ (j = 1 \/ CharAt(s, j - 1) \notin DigitSet)
                  /\ YearsSuffix(s, RunEnd(s, j))}}

\* max(...) of a set of numbers that is not empty
MaxOf(S) == CHOOSE m \in S : \A x \in S : x <= m

RECURSIVE YearsOfMentions(_, _, _)
\* the loop of extract_experience_years: the first mention whose window of
\* 200 characters holds a number of years decides.  The bracketed pattern
\* matches only where the first one does, so it never decides.
YearsOfMentions(s, n, starts) ==
    IF Len(starts) = 0 THEN NoYears
    ELSE LET years_matches == YearsIn(Context(s, starts[1], n, 200, 200))
         IN  IF years_matches # {} THEN Years(MaxOf(years_matches))
             ELSE YearsOfMentions(s, n, Tail(starts))

\* extract_experience_years
ExtractExperienceYears(text, skill) ==
    LET skill_lower == Lower(skill)
        text_lower == Lower(text)
    IN  YearsOfMentions(text_lower, Len(skill_lower), Mentions(skill_lower, text_lower))

(***************************************************************************)
(* SkillAnalyzer: calculate_skill_score and analyze_skills                 *)
(***************************************************************************)
RECURSIVE SplitLines(_)
\* text.split('\n')
SplitLines(s) ==
    LET breaks == {i \in 1..Len(s) : CharAt(s, i) = "\n"}
        first == CHOOSE i \in breaks : \A j \in breaks : i <= j
    IN  IF breaks = {} THEN <<s>>
        ELSE <<SubSeq(s, 1, first - 1)>> \o SplitLines(SubSeq(s, first + 1, Len(s)))

\* line.strip()
Strip(s) ==
    LET inked == {i \in 1..Len(s) : CharAt(s, i) \notin WhiteSpace}
    IN  IF inked = {} THEN ""
        ELSE SubSeq(s, CHOOSE i \in inked : \A j \in inked : i <= j,
                       CHOOSE i \in inked : \A j \in inked : i >= j)

RECURSIVE JoinLines(_)
\* '\n'.join(lines)
JoinLines(lines) ==
    IF Len(lines) = 0 THEN ""
    ELSE IF Len(lines) = 1 THEN lines[1]
    ELSE lines[1] \o "\n" \o JoinLines(Tail(lines))

\* b.index(a), for a inside b
IndexOf(a, b) ==
    CHOOSE i \in 0..(Len(b) - Len(a)) :
        /\ SubSeq(b, i + 1, i + Len(a)) = a
        /\ \A j \in 0..(i - 1) : SubSeq(b, j + 1, j + Len(a)) # a

skills_keywords == {"skills", "technical skills", "competencies", "expertise"}

common_sections ==
    {"experience", "work", "employment", "education", "projects",
     "certifications", "awards", "publications", "references", "interests"}

\* a line that opens the skills section
IsSkillsHeader(line) ==
    LET line_stripped == Strip(line)
    IN  /\ \E keyword \in skills_keywords : IsSubstring(keyword, line_stripped)
        /\ Len(line_stripped) < 50

\* a line that opens another section
IsSectionHeader(line) ==
    LET line_stripped == Strip(line)
    IN  /\ Len(line_stripped) < 50
        /\ \E sec \in common_sections :
               /\ IsSubstring(sec, line_stripped)
               /\ IndexOf(sec, line_stripped) < 5

\* _extract_skills_section, on the lower-cased text; none is None
ExtractSkillsSection(text) ==
    LET lines == SplitLines(text)
        heads == {i \in 1..Len(lines) : IsSkillsHeader(lines[i])}
        section_start == CHOOSE i \in heads : \A j \in heads : i <= j
        ends == {i \in (section_start + 1)..Len(lines) : IsSectionHeader(lines[i])}
        section_end == IF ends = {} THEN Len(lines) + 1
                       ELSE CHOOSE i \in ends : \A j \in ends : i <= j
    IN  IF heads = {} THEN [none |-> TRUE, value |-> ""]
        ELSE [none |-> FALSE,
              value |-> JoinLines(SubSeq(lines, section_start, section_end - 1))]

\* proficiency_keywords, in the order of the dict; points in hundredths
proficiency_keywords == <<
    [keyword |-> "expert",      points |-> 2000],
    [keyword |-> "advanced",    points |-> 1800],
    [keyword |-> "proficient",  points |-> 1500],
    [keyword |-> "experienced", points |-> 1200],
    [keyword |-> "skilled",     points |-> 1000],
    [keyword |-> "strong",      points |-> 800],
    [keyword |-> "solid",       points |-> 600],
    [keyword |-> "familiar",    points |-> 300],
    [keyword |-> "basic",       points |-> 0 - 500],
    [keyword |-> "beginner",    points |-> 0 - 1000],
    [keyword |-> "learning",    points |-> 0 - 500] >>

action_verbs ==
    {"developed", "built", "created", "designed", "implemented", "architected",
     "led", "managed", "optimized", "deployed", "maintained", "integrated",
     "automated", "configured"}

\* the points of the first proficiency keyword found in a context
ProficiencyPoints(context) ==
    LET hits == {i \in 1..Len(proficiency_keywords) :
                    IsSubstring(proficiency_keywords[i].keyword, context)}
    IN  IF hits = {} THEN 0
        ELSE proficiency_keywords[CHOOSE i \in hits : \A j \in hits : i <= j].points

\* the points the action verbs give: the loop adds 10 for every mention
\* whose window of 150 characters before it holds a verb
ActionVerbPoints(text_lower, n, starts) ==
    SumSeq([k \in 1..Len(starts) |->
               IF \E verb \in action_verbs :
                      IsSubstring(verb, Context(text_lower, starts[k], n, 150, 0))
               THEN 1000 ELSE 0])

\* calculate_skill_score up to its Factor 4: the base score, the frequency
\* of mention, the proficiency keywords, the years and the skills section
SkillScoreBase(skill, text) ==
    LET skill_lower == Lower(skill)
        text_lower == Lower(text)
        n == Len(skill_lower)
        starts == Mentions(skill_lower, text_lower)
        mentions == Len(starts)
        frequency == IF mentions >= 5 THEN 2000
                     ELSE IF mentions >= 3 THEN 1500
                     ELSE IF mentions >= 2 THEN 1000
                     ELSE IF mentions >= 1 THEN 500
                     ELSE 0
        proficiency ==
            SumSeq([k \in 1..mentions |->
                       ProficiencyPoints(Context(text_lower, starts[k], n, 100, 100))])
        years == ExtractExperienceYears(text, skill)
        experience == IF years.none THEN 0
                      ELSE IF years.value >= 5 THEN 1500
                      ELSE IF years.value >= 3 THEN 1000
                      ELSE IF years.value >= 1 THEN 500
                      ELSE 0
        skills_section == ExtractSkillsSection(text_lower)
        in_section == IF ~skills_section.none /\ IsSubstring(skill_lower, skills_section.value)
                      THEN 1000 ELSE 0
    IN  5000 + frequency + proficiency + experience + in_section

\* calculate_skill_score, in hundredths (round(score, 1) changes nothing:
\* every term is a whole number)
CalculateSkillScore(skill, text) ==
    LET skill_lower == Lower(skill)
        text_lower == Lower(text)
        verbs == ActionVerbPoints(text_lower, Len(skill_lower),
                                  Mentions(skill_lower, text_lower))
    IN  Max(0, Min(10000, SkillScoreBase(skill, text) + verbs))

\* the dict analyze_skills stores for a skill
SkillEntry(skill_name, category, text) ==
    [name |-> skill_name,
     category |-> category,
     score |-> CalculateSkillScore(skill_name, text),
     years |-> ExtractExperienceYears(text, skill_name)]

\* one turn of the loop over all_skills_lower
CanonicalStep(skills_found, item, text) ==
    LET skill_name == item.value.name
        skill_key == Lower(skill_name)
    IN  IF Search(item.key, Lower(text)) /\ ~DictHas(skills_found, skill_key)
        THEN DictPut(skills_found, skill_key,
                     SkillEntry(skill_name, item.value.category, text))
        ELSE skills_found

\* AliasStep without the test `skill_key not in skills_found`
AliasStep_Overwrite(skills_found, item, text) ==
    LET skill_key == Lower(item.name)
        category == GetSkillCategory(item.name)
    IN  IF Search(item.alias, Lower(text)) /\ category # ""
        THEN DictPut(skills_found, skill_key, SkillEntry(item.name, category, text))
        ELSE skills_found

\* one turn of the loop over skill_aliases
AliasStep(skills_found, item, text) ==
    LET skill_key == Lower(item.name)
        category == GetSkillCategory(item.name)
    IN  IF /\ Search(item.alias, Lower(text))
           /\ ~DictHas(skills_found, skill_key)
           /\ category # ""
        THEN DictPut(skills_found, skill_key, SkillEntry(item.name, category, text))
        ELSE skills_found

RECURSIVE CanonicalPass(_, _, _)
\* Method 1: the names of the taxonomy
CanonicalPass(items, text, skills_found) ==
    IF Len(items) = 0 THEN skills_found
    ELSE CanonicalPass(Tail(items), text, CanonicalStep(skills_found, items[1], text))

RECURSIVE AliasPass(_, _, _)
\* Method 2: the aliases
AliasPass(items, text, skills_found) ==
    IF Len(items) = 0 THEN skills_found
    ELSE AliasPass(Tail(items), text, AliasStep(skills_found, items[1], text))

RECURSIVE SortByScore(_)
\* skills_list.sort(key=score, reverse=True): stable, equal scores keep
\* the order they had
SortByScore(list) ==
    IF Len(list) <= 1 THEN list
    ELSE LET rest == SortByScore(Tail(list))
             x == Head(list)
             k == Cardinality({j \in 1..Len(rest) : rest[j].score > x.score})
         IN  SubSeq(rest, 1, k) \o <<x>> \o SubSeq(rest, k + 1, Len(rest))

\* analyze_skills
AnalyzeSkillsOf(text) ==
    LET skills_found == AliasPass(skill_aliases, text,
                                  CanonicalPass(all_skills_lower, text, <<>>))
    IN  SortByScore([i \in 1..Len(skills_found) |-> skills_found[i].value])

(***************************************************************************)
(* CVParserService: _extract_name                                          *)
(***************************************************************************)
LetterSet == CharSet(UpperChars \o LowerChars)
LowerSet == CharSet(LowerChars)

\* str.isalpha()
IsAlpha(s) == Len(s) > 0 /\ \A i \in 1..Len(s) : CharAt(s, i) \in LetterSet

\* str.isupper(): a cased character, and no lower-case one
IsUpper(s) ==
    /\ \E i \in 1..Len(s) : CharAt(s, i) \in UpperSet
    /\ \A i \in 1..Len(s) : CharAt(s, i) \notin LowerSet

RECURSIVE Without(_, _)
\* the chain of str.replace(c, '') for the characters c of chars, by halves
Without(s, chars) ==
    IF Len(s) = 0 THEN ""
    ELSE IF Len(s) = 1 THEN (IF s \in chars THEN "" ELSE s)
    ELSE LET mid == Len(s) \div 2
         IN  Without(SubSeq(s, 1, mid), chars) \o Without(SubSeq(s, mid + 1, Len(s)), chars)

RECURSIVE WordsFrom(_, _)
\* str.split(): the runs of characters that are no white space, from
\* position i on
WordsFrom(s, i) ==
    LET inked == {j \in i..Len(s) : CharAt(s, j) \notin WhiteSpace}
        first == CHOOSE j \in inked : \A k \in inked : j <= k
        blanks == {j \in first..Len(s) : CharAt(s, j) \in WhiteSpace}
        last == IF blanks = {} THEN Len(s)
                ELSE (CHOOSE j \in blanks : \A k \in blanks : j <= k) - 1
    IN  IF inked = {} THEN <<>>
        ELSE <<SubSeq(s, first, last)>> \o WordsFrom(s, last + 1)

Words(s) == WordsFrom(s, 1)

\* Strategy 1 on one line: 2 to 4 alphabetic words, 50 characters at most
SimpleNameLine(i, raw) ==
    LET line == Strip(raw)
        words == Words(line)
    IN  IF /\ line # ""
           /\ 2 <= Len(words) /\ Len(words) <= 4
           /\ \A w \in 1..Len(words) : IsAlpha(Without(words[w], {".", ",", "'"}))
           /\ Len(line) <= 50
        THEN JoinSpace(words)
        ELSE ""

\* Strategy 1: the first of lines[:3] that passes; "" is None
SimpleName(lines) ==
    LET hits == {i \in 1..Min(3, Len(lines)) : SimpleNameLine(i, lines[i]) # ""}
        first == CHOOSE i \in hits : \A j \in hits : i <= j
    IN  IF hits = {} THEN "" ELSE SimpleNameLine(first, lines[first])

\* Strategy 2 on one line: upper case, 2 or more alphabetic words
AllCapsLine(i, raw) ==
    LET line == Strip(raw)
        words == Words(line)
    IN  IF /\ line # ""
           /\ Len(words) >= 2
           /\ IsUpper(line)
           /\ \A w \in 1..Len(words) : IsAlpha(Without(words[w], {".", ","}))
        THEN JoinSpace(words)
        ELSE ""

\* Strategy 2: the first of lines[:5] that passes
AllCapsName(lines) ==
    LET hits == {i \in 1..Min(5, Len(lines)) : AllCapsLine(i, lines[i]) # ""}
        first == CHOOSE i \in hits : \A j \in hits : i <= j
    IN  IF hits = {} THEN "" ELSE AllCapsLine(first, lines[first])

non_name_words == {"email", "phone", "tel", "fax", "mobile", "address", "cv", "resume"}

\* Strategy 3: the first PERSON entity the recognizer returns
PersonName(persons) ==
    LET name_words == Words(persons[1])
        filtered_words == SelectSeq(name_words, LAMBDA w : Lower(w) \notin non_name_words)
    IN  IF Len(persons) = 0 THEN ""
        ELSE IF Len(filtered_words) >= 2 THEN JoinSpace(filtered_words)
        ELSE IF Len(filtered_words) = 1 /\ Len(name_words) = 1 THEN filtered_words[1]
        ELSE ""

skip_keywords ==
    {"curriculum", "vitae", "resume", "cv", "email", "phone", "address",
     "objective", "summary", "professional", "profile", "contact", "personal",
     "information"}

PhoneSeparators == {"-", "."} \cup WhiteSpace

\* s[i..i+n-1] is n digits
DigitsAt(s, i, n) ==
    /\ i + n - 1 <= Len(s)
    /\ \A k \in i..(i + n - 1) : CharAt(s, k) \in DigitSet

\* re.search(r'\d{3}[-.\s]?\d{3}[-.\s]?\d{4}', line)
HasPhone(s) ==
    \E i \in 1..Len(s), a \in 0..1, b \in 0..1 :
        /\ DigitsAt(s, i, 3)
        /\ a = 1 => (i + 3 <= Len(s) /\ CharAt(s, i + 3) \in PhoneSeparators)
        /\ DigitsAt(s, i + 3 + a, 3)
        /\ b = 1 => (i + 6 + a <= Len(s) /\ CharAt(s, i + 6 + a) \in PhoneSeparators)
        /\ DigitsAt(s, i + 6 + a + b, 4)

\* a word the heuristic of the fourth strategy takes for a part of a name
IsValidWord(word) ==
    LET clean_word == Without(word, {".", ",", "'"})
    IN  /\ clean_word # ""
        /\ \/ IsAlpha(clean_word)
           \/ /\ Len(clean_word) <= 3
              /\ \E k \in 1..Len(clean_word) : CharAt(clean_word, k) \in LetterSet

\* the fourth strategy on line i (the first line is 1)
HeuristicLine(i, raw) ==
    LET line == Strip(raw)
        line_lower == Lower(line)
        words == Words(line)
        valid_words == SelectSeq(words, IsValidWord)
        filtered_words ==
            SelectSeq(valid_words,
                      LAMBDA w : Lower(w) \notin {"email", "phone", "tel", "fax",
                                                  "mobile", "address"})
    IN  IF \/ line = ""
           \/ \E keyword \in skip_keywords : IsSubstring(keyword, line_lower)
           \/ Len(line) > 60
           \/ IsSubstring("@", line)
           \/ HasPhone(line)
        THEN ""
        ELSE IF ~(1 <= Len(words) /\ Len(words) <= 4) THEN ""
        ELSE IF Len(valid_words) >= 2
             THEN (IF Len(filtered_words) >= 2 THEN JoinSpace(filtered_words)
                   ELSE JoinSpace(SubSeq(valid_words, 1, 2)))
        ELSE IF i = 1 /\ Len(valid_words) >= 1 THEN JoinSpace(valid_words)
        ELSE ""

\* the fourth strategy: the first of lines[:10] that gives a name
HeuristicName(lines) ==
    LET hits == {i \in 1..Min(10, Len(lines)) : HeuristicLine(i, lines[i]) # ""}
        first == CHOOSE i \in hits : \A j \in hits : i <= j
    IN  IF hits = {} THEN "" ELSE HeuristicLine(first, lines[first])

NameClass == LetterSet \cup WhiteSpace \cup {"."}

\* the group of (?:name|candidate)[\s:]+([A-Z][a-zA-Z\s.]+?)(?:\n|email|phone|$)
\* under re.IGNORECASE, for the keyword that ends just before position p;
\* "" when the pattern does not match there
LabelGroup(s, p) ==
    LET lowered == Lower(s)
        rest == {q \in p..Len(s) : CharAt(s, q) \notin (WhiteSpace \cup {":"})}
        \* the first character of the group: the letter after the colons
        \* and blanks
        g == CHOOSE q \in rest : \A r \in rest : q <= r
        ends == {e \in (g + 1)..Len(s) :
                    /\ \A k \in (g + 1)..e : CharAt(s, k) \in NameClass
                    /\ \/ e = Len(s)
                       \/ CharAt(s, e + 1) = "\n"
                       \/ Sub(lowered, e + 1, e + 5) \in {"email", "phone"}}
    IN  IF rest = {} THEN ""
        ELSE IF g = p \/ CharAt(s, g) \notin LetterSet THEN ""
        ELSE IF ends = {} THEN ""
        ELSE SubSeq(s, g, CHOOSE e \in ends : \A f \in ends : e <= f)

\* Fallback 2: re.search of the label pattern in text[:500], then the test
\* on the number of words
LabelledName(text) ==
    LET s == Sub(text, 1, 500)
        lowered == Lower(s)
        \* where a keyword ends and the pattern matches
        hits == {p \in 1..(Len(s) + 1) :
                    /\ \/ (p > 4 /\ SubSeq(lowered, p - 4, p - 1) = "name")
                       \/ (p > 9 /\ SubSeq(lowered, p - 9, p - 1) = "candidate")
                    /\ LabelGroup(s, p) # ""}
        \* the leftmost match is the one whose keyword starts first
        start(p) == IF SubSeq(lowered, p - 4, p - 1) = "name" THEN p - 4 ELSE p - 9
        first == CHOOSE p \in hits : \A q \in hits : start(p) <= start(q)
        name == Strip(LabelGroup(s, first))
    IN  IF hits = {} THEN ""
        ELSE IF 2 <= Len(Words(name)) /\ Len(Words(name)) <= 4 THEN name
        ELSE ""

\* _extract_name with the upper-case lines looked for before the simple ones
ExtractNameOf_CapsFirst(text, persons) ==
    LET lines == SplitLines(text)
        simple == SimpleName(lines)
        caps == AllCapsName(lines)
        person == PersonName(persons)
        heuristic == HeuristicName(lines)
        labelled == LabelledName(text)
    IN  IF caps # "" THEN [name |-> caps, strategy |-> 2]
        ELSE IF simple # "" THEN [name |-> simple, strategy |-> 1]
        ELSE IF person # "" THEN [name |-> person, strategy |-> 3]
        ELSE IF heuristic # "" THEN [name |-> heuristic, strategy |-> 4]
        ELSE IF labelled # "" THEN [name |-> labelled, strategy |-> 5]
        ELSE [name |-> "", strategy |-> 0]

\* _extract_name: the name, and the strategy that returned it, in the
\* order of the code (0 and "" when all fail)
ExtractNameOf(text, persons) ==
    LET lines == SplitLines(text)
        simple == SimpleName(lines)
        caps == AllCapsName(lines)
        person == PersonName(persons)
        heuristic == HeuristicName(lines)
        labelled == LabelledName(text)
    IN  IF simple # "" THEN [name |-> simple, strategy |-> 1]
        ELSE IF caps # "" THEN [name |-> caps, strategy |-> 2]
        ELSE IF person # "" THEN [name |-> person, strategy |-> 3]
        ELSE IF heuristic # "" THEN [name |-> heuristic, strategy |-> 4]
        ELSE IF labelled # "" THEN [name |-> labelled, strategy |-> 5]
        ELSE [name |-> "", strategy |-> 0]

(***************************************************************************)
(* CVParserService: _extract_section and the line walk of                  *)
(* extract_experience                                                      *)
(***************************************************************************)
\* an Optional[str]: None, or a string
NoText == [none |-> TRUE, value |-> ""]
Text(s) == [none |-> FALSE, value |-> s]

\* the keywords extract_experience hands to _extract_section
experience_keywords == {"experience", "work", "employment", "professional", "career"}

\* common_sections of _extract_section
section_names ==
    {"experience", "work", "employment", "skills", "projects",
     "certifications", "awards", "publications", "references"}

\* a line that opens the section of the keywords
OpensSection(line, keywords) ==
    LET line_lower == Strip(Lower(line))
    IN  /\ \E keyword \in keywords : IsSubstring(keyword, line_lower)
        /\ Len(line_lower) < 50

\* a line that names one of the sections in names within its first
\* characters
NamesSection(line, names) ==
    LET line_lower == Strip(Lower(line))
    IN  /\ Len(line_lower) < 50
        /\ \E sec \in names :
               /\ IsSubstring(sec, line_lower)
               /\ IndexOf(sec, line_lower) < 5

\* the lines lines[section_start:section_end], the end being the first
\* line after the start that names one of the sections in names
SectionUpTo(lines, keywords, names) ==
    LET heads == {i \in 1..Len(lines) : OpensSection(lines[i], keywords)}
        section_start == CHOOSE i \in heads : \A j \in heads : i <= j
        ends == {i \in (section_start + 1)..Len(lines) : NamesSection(lines[i], names)}
        section_end == IF ends = {} THEN Len(lines) + 1
                       ELSE CHOOSE i \in ends : \A j \in ends : i <= j
    IN  IF heads = {} THEN [none |-> TRUE, lines |-> <<>>]
        ELSE [none |-> FALSE, lines |-> SubSeq(lines, section_start, section_end - 1)]

\* _extract_section, on the lines of the text: text.split('\n') before and
\* '\n'.join after
ExtractSection(lines, keywords) == SectionUpTo(lines, keywords, section_names)

\* the ORG entities the recognizer finds: the names it knows
org_names == <<"Acme Corp">>
LineOrgs(line) == SelectSeq(org_names, LAMBDA org : IsSubstring(org, line))

\* \b(19\d{2}|20\d{2})\b matches at position i
YearAt(s, i) ==
    /\ i + 3 <= Len(s)
    /\ IsYear(SubSeq(s, i, i + 3))
    /\ Boundary(s, i)
    /\ Boundary(s, i + 4)

RECURSIVE YearsFrom(_, _)
\* re.findall of the year pattern, from position i on
YearsFrom(s, i) ==
    LET starts == {j \in i..Len(s) : YearAt(s, j)}
        first == CHOOSE j \in starts : \A k \in starts : j <= k
    IN  IF starts = {} THEN <<>>
        ELSE <<SubSeq(s, first, first + 3)>> \o YearsFrom(s, first + 4)

LineDates(line) == YearsFrom(Lower(line), 1)

title_keywords ==
    {"engineer", "developer", "manager", "analyst", "designer", "consultant",
     "specialist", "coordinator", "director", "lead", "senior", "junior",
     "intern", "associate", "assistant", "architect", "scientist",
     "researcher", "administrator"}

\* _looks_like_job_title
LooksLikeJobTitle(line) ==
    \E keyword \in title_keywords : IsSubstring(keyword, Lower(line))

\* re.sub(r'\s+(at|@)\s+.*', '', line, flags=re.IGNORECASE)
WithoutCompany(line) ==
    LET s == Lower(line)
        blank(p) == p >= 1 /\ p <= Len(s) /\ CharAt(s, p) \in WhiteSpace
        word_at(p) ==
            \/ SubSeq(s, p, Min(Len(s), p + 1)) = "at" /\ blank(p + 2)
            \/ blank(p + 1) /\ CharAt(s, p) = "@"
        hits == {i \in 1..Len(s) :
                    \E j \in i..Len(s) :
                        /\ \A k \in i..j : blank(k)
                        /\ j + 1 <= Len(s)
                        /\ word_at(j + 1)}
    IN  IF hits = {} THEN line
        ELSE SubSeq(line, 1, (CHOOSE i \in hits : \A j \in hits : i <= j) - 1)

\* re.sub(r'\b(19\d{2}|20\d{2})\b.*', '', title)
WithoutDates(title) ==
    LET s == Lower(title)
        hits == {i \in 1..Len(s) : YearAt(s, i)}
    IN  IF hits = {} THEN title
        ELSE SubSeq(title, 1, (CHOOSE i \in hits : \A j \in hits : i <= j) - 1)

RECURSIVE WithoutParentheses(_)
\* re.sub(r'\(.*?\)', '', title)
WithoutParentheses(title) ==
    LET opens == {i \in 1..Len(title) :
                     /\ CharAt(title, i) = "("
                     /\ \E j \in (i + 1)..Len(title) : CharAt(title, j) = ")"}
        open == CHOOSE i \in opens : \A j \in opens : i <= j
        closes == {j \in (open + 1)..Len(title) : CharAt(title, j) = ")"}
        close == CHOOSE i \in closes : \A j \in closes : i <= j
    IN  IF opens = {} THEN title
        ELSE SubSeq(title, 1, open - 1)
             \o WithoutParentheses(SubSeq(title, close + 1, Len(title)))

\* title.strip(' ,-|') (the en dash of the set is left out)
StripPunctuation(s) ==
    LET inked == {i \in 1..Len(s) : CharAt(s, i) \notin {" ", ",", "-", "|"}}
    IN  IF inked = {} THEN ""
        ELSE SubSeq(s, CHOOSE i \in inked : \A j \in inked : i <= j,
                       CHOOSE i \in inked : \A j \in inked : i >= j)

\* _extract_job_title
ExtractJobTitle(line) ==
    StripPunctuation(WithoutParentheses(WithoutDates(WithoutCompany(line))))

\* _format_duration, for a line with at least one year
FormatDuration(years, context) ==
    IF Len(years) >= 2 THEN years[1] \o " - " \o years[Len(years)]
    ELSE IF \E word \in {"present", "current"} : Search(word, Lower(context))
         THEN years[1] \o " - Present"
    ELSE years[1]

\* the line opens an entry: it holds a company, a year or a job title
StartsEntry(line) ==
    \/ Len(LineOrgs(line)) > 0
    \/ Len(LineDates(line)) > 0
    \/ LooksLikeJobTitle(line)

\* the entry a line opens
NewEntry(line) ==
    [title |-> IF LooksLikeJobTitle(line) THEN Text(ExtractJobTitle(line)) ELSE NoText,
     company |-> IF Len(LineOrgs(line)) > 0 THEN Text(LineOrgs(line)[1]) ELSE NoText,
     duration |-> IF Len(LineDates(line)) > 0
                  THEN Text(FormatDuration(LineDates(line), line))
                  ELSE NoText,
     description |-> ""]

\* Saved without the test on the title
Saved_Untitled(experience_list, current_entry) ==
    experience_list \o current_entry

\* `if current_entry and current_entry.get('title'): append`; the entry
\* being read is a list of one entry, or the empty list for None
Saved(experience_list, current_entry) ==
    IF Len(current_entry) > 0 /\ ~current_entry[1].title.none
       /\ current_entry[1].title.value # ""
    THEN Append(experience_list, current_entry[1])
    ELSE experience_list

\* the entry being read after a line was added to its description
Described(current_entry, line) ==
    IF Len(current_entry) = 0 THEN current_entry
    ELSE <<[current_entry[1] EXCEPT
               !.description = IF @ # "" THEN @ \o " " \o line ELSE line]>>

RECURSIVE WalkLines(_, _, _, _)
\* the loop over the lines of the section, from line i on, and the
\* `Add last entry` step after it
WalkLines(lines, i, experience_list, current_entry) ==
    IF i > Len(lines) THEN Saved(experience_list, current_entry)
    ELSE LET line == Strip(lines[i])
         IN  IF line = ""
             THEN WalkLines(lines, i + 1, experience_list, current_entry)
             ELSE IF StartsEntry(line)
             THEN WalkLines(lines, i + 1, Saved(experience_list, current_entry),
                            <<NewEntry(line)>>)
             ELSE WalkLines(lines, i + 1, experience_list,
                            Described(current_entry, line))

\* the words of the lines of a section, for the range pattern
SectionWords(lines) == Words(JoinSpace(lines))

\* extract_experience on the lines of a text
ExtractExperienceOf(lines, year) ==
    LET experience_section == ExtractSection(lines, experience_keywords)
    IN  IF experience_section.none \/ JoinLines(experience_section.lines) = ""
        THEN [experience |-> <<>>, total_years |-> 0]
        ELSE [experience |-> WalkLines(experience_section.lines, 1, <<>>, <<>>),
              total_years |->
                  CalculateTotalExperience(
                      ExtractDateRanges(SectionWords(experience_section.lines), year))]

(***************************************************************************)
(* MatchingService: calculate_single_match and calculate_matches           *)
(***************************************************************************)
\* MatchResult.query.filter_by(candidate_id=..., job_id=...) on the
\* committed rows
RowsOf(rows, candidate_id, job_id) ==
    {row \in rows : row.candidate_id = candidate_id /\ row.job_id = job_id}

\* the row calculate_single_match adds when it found none: its primary key
\* is a fresh uuid, here the call and the job it was made for
NewRow(r, candidate_id, job_id, scored) ==
    [id |-> <<r, job_id>>, candidate_id |-> candidate_id, job_id |-> job_id,
     match_scores |-> scored.match_scores, status |-> scored.status,
     screening_notes |-> scored.screening_notes]

\* the existing row with the new scores, status and notes
UpdatedRow(row, scored) ==
    [row EXCEPT !.match_scores = scored.match_scores,
                !.status = scored.status,
                !.screening_notes = scored.screening_notes]

\* the table after the commit of a call that found the rows `existing`
\* (none, or one) for its pair
Committed(rows, existing, r, candidate_id, job_id, scored) ==
    IF existing = {}
    THEN rows \cup {NewRow(r, candidate_id, job_id, scored)}
    ELSE {IF row.id \in existing THEN UpdatedRow(row, scored) ELSE row : row \in rows}

\* a call goes on after a job is dealt with: to the next job, or it returns
AfterJob(req) ==
    [req EXCEPT !.todo = Tail(@),
                !.existing = {},
                !.pc = IF Len(req.todo) > 1 THEN "fetch" ELSE "returned"]

\* an exception in calculate_single_match: caught by the loop of
\* calculate_matches, which goes on; raised to the caller otherwise
AfterRaise(req) ==
    IF req.kind = "matches" THEN AfterJob(req)
    ELSE [req EXCEPT !.pc = "raised"]

(***************************************************************************)
(* CandidateService and MatchingService: whole calls on the two tables     *)
(***************************************************************************)
\* no row of the candidates table under an id
NoCandidate == [status |-> "absent", email |-> ""]

\* the status create_candidate gives for an extraction_status
StatusFor(extraction_status) ==
    IF extraction_status = "failed" THEN "failed"
    ELSE IF extraction_status = "partial" THEN "completed"
    ELSE "completed"

\* create_candidate: (candidate, error); the new row gets the id `id`
CreateCandidateOn(table, id, candidate_data) ==
    IF /\ candidate_data.email # ""
       /\ \E other \in DOMAIN table :
              table[other].status # "absent" /\ table[other].email = candidate_data.email
    THEN [error |-> TRUE, table |-> table]
    ELSE [error |-> FALSE,
          table |-> [table EXCEPT ![id] =
                        [status |-> StatusFor(candidate_data.extraction_status),
                         email |-> candidate_data.email]]]

valid_statuses == {"processing", "completed", "failed"}

\* update_candidate_status: (success, error)
UpdateCandidateStatusOn(table, id, new_status) ==
    IF table[id].status = "absent" \/ new_status \notin valid_statuses
    THEN [error |-> TRUE, table |-> table]
    ELSE [error |-> FALSE, table |-> [table EXCEPT ![id].status = new_status]]

\* NotCompleted that lets a candidate still in processing through
NotCompleted_FailedOnly(row) == row.status = "failed"

\* `if candidate.status != 'completed': raise ValueError`
NotCompleted(row) == row.status # "completed"

\* the end of calculate_single_match: the update of the row found or the
\* add of a new one, and the commit
SingleMatchWrite(rows, candidate_id, job_id, scores, screened, found) ==
    IF screened.raises THEN [raises |-> TRUE, rows |-> rows, wrote |-> {}]
    ELSE [raises |-> FALSE,
          rows |-> Committed(rows,
                             IF found = {} THEN {}
                             ELSE {(CHOOSE row \in found : TRUE).id},
                             candidate_id, candidate_id, job_id,
                             [match_scores |-> scores, status |-> screened.status,
                              screening_notes |-> screened.screening_notes]),
          wrote |-> {<<candidate_id, job_id>>}]

\* what the matching engine gives calculate_single_match for a candidate
\* and a job: the scores of calculate_match_score and the outcome of
\* screen_candidate on them
EngineScreened(cand, jb, scores) ==
    [scores |-> scores, screened |-> ScreenCandidateOf(cand, jb, scores)]
EngineOn(cand, jb) == EngineScreened(cand, jb, CalculateMatchScoreOf(cand, jb))

\* calculate_single_match as one call: the table after it, the pairs it
\* wrote, and whether it raised; `db` holds the jobs table, its active
\* jobs, and what the matching engine returns for candidate.to_dict() and
\* each job
SingleMatchOn(db, table, rows, candidate_id, job_id) ==
    IF \/ table[candidate_id].status = "absent"
       \/ job_id \notin DOMAIN db.jobs
       \/ NotCompleted(table[candidate_id])
    THEN [raises |-> TRUE, rows |-> rows, wrote |-> {}]
    ELSE SingleMatchWrite(rows, candidate_id, job_id, db.engine[job_id].scores,
                          db.engine[job_id].screened,
                          RowsOf(rows, candidate_id, job_id))

RECURSIVE MatchJobsOn(_, _, _, _, _, _)
\* the loop of calculate_matches after a job: the rows it left, the pairs
\* written so far
MatchJobsAfter(db, table, candidate_id, jobs, wrote, one) ==
    MatchJobsOn(db, table, one.rows, candidate_id, jobs, wrote \cup one.wrote)

\* the loop of calculate_matches over the active jobs: an exception of
\* calculate_single_match is caught and the loop goes on
MatchJobsOn(db, table, rows, candidate_id, jobs, wrote) ==
    IF Len(jobs) = 0 THEN [raises |-> FALSE, rows |-> rows, wrote |-> wrote]
    ELSE MatchJobsAfter(db, table, candidate_id, Tail(jobs), wrote,
                        SingleMatchOn(db, table, rows, candidate_id, Head(jobs)))

\* calculate_matches as one call
MatchesOn(db, table, rows, candidate_id) ==
    IF table[candidate_id].status = "absent" \/ NotCompleted(table[candidate_id])
    THEN [raises |-> TRUE, rows |-> rows, wrote |-> {}]
    ELSE MatchJobsOn(db, table, rows, candidate_id, db.active, {})

\* what an operation leaves in the log: what it was called with, whether it
\* ended in an error, the pairs it committed, the rows of match_results it
\* added or changed
Logged(op, candidate_id, extraction_status, error, wrote, before, after) ==
    [op |-> op, candidate_id |-> candidate_id,
     extraction_status |-> extraction_status, error |-> error, wrote |-> wrote,
     touched |-> after \ before]

(***************************************************************************)
(* Inputs                                                                  *)
(***************************************************************************)
MaxCandidateSkills == 2
MaxRequiredSkills == 2
MaxPreferredSkills == 1
MaxYears == 10
MaxNegativeYears == 2
MaxEducation == 2
MaxTokens == 6
MaxParseTokens == 3
MaxPieces == 3
MaxMissingYears == 3
MaxRanges == 3
MaxTotalCalls == 2
MaxNameLines == 3
MaxRequests == 2
MaxThreads == 2
MaxWalkLines == 3
MaxCandidates == 2
MaxRepeats == 2

SkillNames == {"Python", "java", "JavaScript"}
SkillRecords == {[name |-> n] : n \in SkillNames}

\* degree texts the patterns of extract_education match
DegreeTexts ==
    {"Bachelor's", "Undergraduate", "B.S", "Master", "PhD", "Doctor of Philosophy",
     "Associate", "Diploma"}

\* education entries as extract_education builds them (degree text, level)
EducationEntries == {EducationEntry(d) : d \in DegreeTexts}

\* education_level of a job; "" is None, "Postgraduate" is in no table
RequiredLevels ==
    {"", "High School", "Diploma", "Bachelor's", "Master's", "PhD", "Postgraduate"}

CandidateYears == (0 - MaxNegativeYears)..MaxYears
RequiredYears == (0 - MaxNegativeYears)..MaxYears

\* scores handed to screen_candidate, in hundredths
ScoreGrid ==
    {0, 3000, 3999, 4000, 4999, 5000, 5500, 5999, 6000, 6500, 6999, 7000,
     7200, 10000}

\* component scores around the thresholds of screen_candidate
ComponentGrid == {0, 4000, 4999, 5000, 5999, 6000, 7000, 10000}

DefaultCandidate ==
    [skills |-> <<>>, total_experience_years |-> 0, education |-> <<>>,
     absent |-> {}, nulls |-> {}]
DefaultJob ==
    [required_skills |-> <<>>, preferred_skills |-> <<>>,
     min_experience_years |-> 0, education_level |-> "",
     absent |-> {}, nulls |-> {}]

\* the tokens of an experience section after its header line
SectionTokens == {"2018", "2019", "-", "present"}
CurrentYears == {2019, 2020}

ExperienceEntry ==
    [title |-> "Engineer", company |-> "Acme Corp", duration |-> "2018 - 2019",
     description |-> ""]

NoRaise(v) == [raises |-> FALSE, value |-> v]
Raise(v) == [raises |-> TRUE, value |-> v]

\* the outcomes of the sub-extractions
EmailOutcomes == {Raise(""), NoRaise(""), NoRaise("jo@x.io")}
PhoneOutcomes == {Raise(""), NoRaise("5551234567")}
NameOutcomes == {Raise(""), NoRaise(""), NoRaise("Jo Li")}
EducationOutcomes ==
    {Raise(<<>>), NoRaise(<<EducationEntry("Undergraduate")>>)}
ExperienceOutcomes == {Raise(<<>>), NoRaise(<<ExperienceEntry>>)}

AllExtracted ==
    [email |-> NoRaise("jo@x.io"), phone |-> NoRaise("5551234567"),
     name |-> NoRaise("Jo Li"),
     education |-> NoRaise(<<EducationEntry("Undergraduate")>>),
     experience |-> NoRaise(<<ExperienceEntry>>)]

\* the pieces a CV text is put together from, with a blank between them
Filler == "lorem ipsum dolor sit amet consectetur adipiscing elit sed do eiusmod tempor incididunt ut labore et dolore magna aliqua ut enim ad minim veniam quis nostrud"
TextPieces ==
    {"Python", "js", "JavaScript", "Rust", "AWS", "basic", "developed",
     "5 years", "Skills:", "\nExperience\n", Filler}
Texts(n) == {JoinSpace(pieces) : pieces \in SeqsUpTo(TextPieces, n)}

\* texts that mention a skill more than once, with numbers of years near
\* the mentions and more than 200 characters between them
LongFiller == Filler \o " " \o Filler
YearPieces == {"Python 2 years", "Python 5 years", "Python", LongFiller}
YearTexts(n) == {JoinSpace(pieces) : pieces \in SeqsUpTo(YearPieces, n)}

\* texts that name skills declared under two categories, by their canonical
\* names and by an alias
CloudPieces == {"gcp", "Google Cloud", "AWS", "Python"}
CloudTexts(n) == {JoinSpace(pieces) : pieces \in SeqsUpTo(CloudPieces, n)}

\* the lines a CV header is put together from
NameLines ==
    {"JOHN SMITH", "John Smith", "Email: john@x.com", "", "Resume name: Jane Doe",
     "JOHN A B C SMITH", "Jane", "Jane Doe 2"}
NameTexts(n) == {JoinLines(lines) : lines \in SeqsUpTo(NameLines, n)}

\* the PERSON entities the recognizer may report
PersonLists == {<<>>, <<"Jane Doe">>, <<"Jane Email">>}

\* the calls of the MatchingService, the one candidate they are about and
\* the active jobs
Requests == 1..MaxRequests
CandidateId == "c1"
JobDicts ==
    [j1 |-> [DefaultJob EXCEPT !.required_skills = <<"Python">>,
                               !.min_experience_years = 2],
     j2 |-> [DefaultJob EXCEPT !.required_skills = <<"java">>]]
ActiveJobs == <<"j1", "j2">>

\* what the candidates table may hold for the candidate when a call reads it
CandidateRows ==
    {[status |-> "completed", dict |-> DefaultCandidate],
     [status |-> "completed",
      dict |-> [DefaultCandidate EXCEPT !.skills = <<[name |-> "Python"]>>,
                                        !.total_experience_years = 3]],
     [status |-> "processing", dict |-> DefaultCandidate]}

NotScored == [match_scores |-> NoScores, status |-> "", screening_notes |-> <<>>]

\* a call: of calculate_matches, or of calculate_single_match for one job
Calls ==
    [kind : {"matches"}, todo : {<<>>}, scored : {NotScored}, existing : {{}},
     pc : {"call"}]
    \cup [kind : {"single"}, todo : {<<"j1">>, <<"j2">>}, scored : {NotScored},
          existing : {{}}, pc : {"fetch"}]

\* the threads that score on the shared engine, and what they score
Threads == 1..MaxThreads
Builds == {"new_each_fit", "kept"}
ScoredCandidates ==
    {[DefaultCandidate EXCEPT !.skills = sk, !.total_experience_years = 3] :
        sk \in {<<>>, <<[name |-> "Python"]>>,
                <<[name |-> "Python"], [name |-> "JavaScript"]>>}}
ScoredJobs ==
    {[DefaultJob EXCEPT !.required_skills = rs, !.min_experience_years = 2] :
        rs \in {<<"Python">>, <<"java">>}}

NewCall(cand, jb) ==
    [cand |-> cand, jb |-> jb, pc |-> "call", X |-> <<>>, transformed |-> "",
     match_scores |-> NoScores]

\* the years of the ranges handed to _calculate_total_experience
RangeYears == 2018..2020

\* the ways to put n things in another order
Orders(n) == {p \in [1..n -> 1..n] : \A i, j \in 1..n : p[i] = p[j] => i = j}

\* no experience section, or its header line and then at most n tokens
Sections(n) ==
    {<<>>} \cup {<<"Experience">> \o body : body \in SeqsUpTo(SectionTokens, n)}

\* the lines a CV text is put together from: section headers, a line with
\* a title, a company and years, a line with a company only, a line with
\* years only, a line whose title is cut to nothing, a description line
\* and a blank line
WalkLineTexts ==
    {"Experience", "Education", "Projects",
     "Senior Engineer at Acme Corp 2018 - 2020", "Acme Corp",
     "BSc 2010 - 2014", "2019 Lead", "Built tools", "  "}

\* candidate.to_dict(): the same profile for every candidate
CandidateDict ==
    [DefaultCandidate EXCEPT !.skills = <<[name |-> "Python"]>>,
                             !.total_experience_years = 3]

\* what the whole calls read besides the two tables: the jobs table, its
\* active jobs, and the matching engine on the candidate and each job
Database ==
    [jobs |-> JobDicts,
     active |-> ActiveJobs,
     engine |-> [job_id \in DOMAIN JobDicts |-> EngineOn(CandidateDict, JobDicts[job_id])]]

\* the ids of the candidates rows, in the order they are given out
CandidateIds == 1..MaxCandidates

\* the profiles handed to create_candidate: their email (none, or the one
\* address) and their extraction_status
CandidateData ==
    [email : {"", "jo@x.io"}, extraction_status : {"success", "partial", "failed"}]

\* the statuses handed to update_candidate_status
StatusArguments == valid_statuses \cup {"archived"}

\* the job ids handed to calculate_single_match
JobArguments == {"j1", "j2", "j9"}

\* the clock: some months of two years
ClockMonths == {1, 7, 12}
Clocks == [year : CurrentYears, month : ClockMonths]
Later(a, b) == a.year > b.year \/ (a.year = b.year /\ a.month > b.month)

\* the inputs of the operations that are called twice in a row
ScoreInputs == [op : {"score"}, cand : ScoredCandidates, jb : ScoredJobs]
ParseInputs ==
    [op : {"parse"}, ex : {AllExtracted}, tokens : Sections(MaxParseTokens)]
AnalyzeInputs == [op : {"analyze"}, text : Texts(1)]

(***************************************************************************)
(* Initial states                                                          *)
(***************************************************************************)
ScoreIdle ==
    /\ candidate = DefaultCandidate
    /\ job = DefaultJob
    /\ match_scores = NoScores
    /\ status = ""
    /\ screening_notes = <<>>
    /\ phase = "idle"

ParseIdle ==
    /\ section = <<>>
    /\ current_year = 2020
    /\ extractors = AllExtracted
    /\ date_ranges = <<>>
    /\ exp_result = [raises |-> FALSE, experience |-> <<>>, total_years |-> 0]
    /\ profile = EmptyProfile
    /\ parse_pc = "idle"
    /\ total_calls = <<>>

SkillIdle ==
    /\ cv_text = ""
    /\ skills_list = <<>>
    /\ skill_pc = "idle"

NoName == [name |-> "", strategy |-> 0]

TableIdle ==
    /\ candidate_table = [id \in CandidateIds |-> NoCandidate]
    /\ match_table = {}
    /\ last_op = Logged("", 0, "", FALSE, {}, {}, {})

WalkIdle ==
    /\ walk_lines = <<>>
    /\ walk_result = [experience |-> <<>>, total_years |-> 0]
    /\ walk_pc = "idle"

RepeatIdle ==
    /\ now = [year |-> 2020, month |-> 1]
    /\ repeat_input = [op |-> ""]
    /\ history = <<>>

SharedIdle ==
    /\ vectorizer = NotFitted("kept")
    /\ calls = <<>>

StoreIdle ==
    /\ match_results = {}
    /\ requests = <<>>

NameIdle ==
    /\ name_text = ""
    /\ person_entities = <<>>
    /\ name_result = NoName
    /\ name_pc = "idle"

ScoreInput ==
    /\ match_scores = NoScores
    /\ status = ""
    /\ screening_notes = <<>>
    /\ phase = "input"

\* the skills vary
InitSkill ==
    /\ \E cs \in SeqsUpTo(SkillRecords, MaxCandidateSkills) :
           candidate = [DefaultCandidate EXCEPT !.skills = cs]
    /\ \E rs \in SeqsUpTo(SkillNames, MaxRequiredSkills),
          ps \in SeqsUpTo(SkillNames, MaxPreferredSkills) :
           job = [DefaultJob EXCEPT !.required_skills = rs, !.preferred_skills = ps]
    /\ ScoreInput

\* the years vary
InitExperience ==
    /\ \E c \in CandidateYears :
           candidate = [DefaultCandidate EXCEPT !.total_experience_years = c]
    /\ \E r \in RequiredYears :
           job = [DefaultJob EXCEPT !.min_experience_years = r]
    /\ ScoreInput

\* the education varies
InitEducation ==
    /\ \E ed \in SeqsUpTo(EducationEntries, MaxEducation) :
           candidate = [DefaultCandidate EXCEPT !.education = ed]
    /\ \E lv \in RequiredLevels :
           job = [DefaultJob EXCEPT !.education_level = lv]
    /\ ScoreInput

\* everything varies, over a sample
InitMixed ==
    /\ candidate \in
         [skills : {<<>>, <<[name |-> "Python"]>>,
                    <<[name |-> "java"], [name |-> "Python"]>>},
          total_experience_years : {0, 2, 4, 5},
          education : {<<>>, <<[degree |-> "Bachelor's", level |-> "Bachelor's"]>>,
                       <<[degree |-> "Diploma", level |-> "Diploma"]>>},
          absent : {{}}, nulls : {{}}]
    /\ job \in
         [required_skills : {<<>>, <<"python">>, <<"Python", "JavaScript", "Go">>},
          preferred_skills : {<<>>, <<"Java">>},
          min_experience_years : {0, 3, 5},
          education_level : {"", "Master's", "PhD"},
          absent : {{}}, nulls : {{}}]
    /\ ScoreInput

\* how a numeric key can be there: with a number, not at all, or with None
Presence == {"number", "absent", "null"}
Keyed(d, key, how) ==
    [d EXCEPT ![key] = IF how = "number" THEN @ ELSE 0,
              !.absent = IF how = "absent" THEN {key} ELSE {},
              !.nulls = IF how = "null" THEN {key} ELSE {}]

\* the numeric fields are there, absent or None
InitMissing ==
    /\ \E c \in 0..MaxMissingYears, how \in Presence :
           candidate = Keyed([DefaultCandidate EXCEPT !.total_experience_years = c],
                             "total_experience_years", how)
    /\ \E r \in 0..MaxMissingYears, how \in Presence :
           job = Keyed([DefaultJob EXCEPT !.min_experience_years = r],
                       "min_experience_years", how)
    /\ ScoreInput

\* screen_candidate on any scores
InitScreen ==
    /\ candidate \in {DefaultCandidate,
                      [DefaultCandidate EXCEPT !.skills = <<[name |-> "Python"]>>]}
    /\ job \in {DefaultJob,
                [DefaultJob EXCEPT !.required_skills = <<"python", "Go">>]}
    /\ \E overall \in ScoreGrid, skill \in ScoreGrid :
           match_scores = [NoScores EXCEPT !.match_score = overall,
                                           !.skill_match_score = skill]
    /\ status = ""
    /\ screening_notes = <<>>
    /\ phase = "given"

\* screen_candidate on component scores and their weighted sum
InitWeighted ==
    /\ candidate = DefaultCandidate
    /\ job = DefaultJob
    /\ \E skill \in ComponentGrid, experience \in ComponentGrid,
          education \in ComponentGrid :
           match_scores = [match_score |-> OverallScore(skill, experience, education),
                           skill_match_score |-> skill,
                           experience_match_score |-> experience,
                           education_match_score |-> education]
    /\ status = ""
    /\ screening_notes = <<>>
    /\ phase = "given"

InitScore ==
    /\ InitSkill \/ InitExperience \/ InitEducation \/ InitMixed \/ InitMissing
       \/ InitScreen \/ InitWeighted
    /\ ParseIdle
    /\ SkillIdle
    /\ NameIdle
    /\ StoreIdle
    /\ SharedIdle
    /\ RepeatIdle
    /\ WalkIdle
    /\ TableIdle

ParseInput ==
    /\ current_year \in CurrentYears
    /\ date_ranges = <<>>
    /\ exp_result = [raises |-> FALSE, experience |-> <<>>, total_years |-> 0]
    /\ profile = EmptyProfile
    /\ parse_pc = "input"
    /\ total_calls = <<>>

\* the sub-extractions vary
InitOutcomes ==
    /\ extractors \in [email : EmailOutcomes, phone : PhoneOutcomes,
                       name : NameOutcomes, education : EducationOutcomes,
                       experience : ExperienceOutcomes]
    /\ section \in Sections(MaxParseTokens)
    /\ ParseInput

\* the text of the experience section varies
InitRanges ==
    /\ extractors = AllExtracted
    /\ section \in Sections(MaxTokens)
    /\ ParseInput

InitParse ==
    /\ InitOutcomes \/ InitRanges
    /\ ScoreIdle
    /\ SkillIdle
    /\ NameIdle
    /\ StoreIdle
    /\ SharedIdle
    /\ RepeatIdle
    /\ WalkIdle
    /\ TableIdle

\* a list of ranges handed to _calculate_total_experience: any pairs of
\* years, overlapping, adjacent, apart or written end before start
InitTotal ==
    /\ section = <<>>
    /\ current_year = 2020
    /\ extractors = AllExtracted
    /\ date_ranges \in SeqsUpTo(RangeYears \X RangeYears, MaxRanges)
    /\ exp_result = [raises |-> FALSE, experience |-> <<>>, total_years |-> 0]
    /\ profile = EmptyProfile
    /\ parse_pc = "ranges"
    /\ total_calls = <<>>
    /\ ScoreIdle
    /\ SkillIdle
    /\ NameIdle
    /\ StoreIdle
    /\ SharedIdle
    /\ RepeatIdle
    /\ WalkIdle
    /\ TableIdle

\* the text handed to analyze_skills varies
InitAnalyze ==
    /\ cv_text \in Texts(MaxPieces) \cup YearTexts(MaxPieces) \cup CloudTexts(MaxPieces)
    /\ skills_list = <<>>
    /\ skill_pc = "input"
    /\ ScoreIdle
    /\ ParseIdle
    /\ NameIdle
    /\ StoreIdle
    /\ SharedIdle
    /\ RepeatIdle
    /\ WalkIdle
    /\ TableIdle

\* the header handed to _extract_name varies, and what the recognizer finds
InitName ==
    /\ name_text \in NameTexts(MaxNameLines)
    /\ person_entities \in PersonLists
    /\ name_result = NoName
    /\ name_pc = "input"
    /\ ScoreIdle
    /\ ParseIdle
    /\ SkillIdle
    /\ StoreIdle
    /\ SharedIdle
    /\ RepeatIdle
    /\ WalkIdle
    /\ TableIdle

\* an empty table, and the calls that are made
InitStore ==
    /\ match_results = {}
    /\ requests \in [Requests -> Calls]
    /\ ScoreIdle
    /\ ParseIdle
    /\ SkillIdle
    /\ NameIdle
    /\ SharedIdle
    /\ RepeatIdle
    /\ WalkIdle
    /\ TableIdle

\* the engine as constructed, and a call on each thread
InitShared ==
    /\ vectorizer \in {NotFitted(build) : build \in Builds}
    /\ calls \in [Threads -> {NewCall(cand, jb) : cand \in ScoredCandidates,
                                                  jb \in ScoredJobs}]
    /\ ScoreIdle
    /\ ParseIdle
    /\ SkillIdle
    /\ NameIdle
    /\ StoreIdle
    /\ RepeatIdle
    /\ WalkIdle
    /\ TableIdle

\* one operation, one input, the engine as constructed, and a clock
InitRepeat ==
    /\ now \in Clocks
    /\ \/ repeat_input \in ScoreInputs
       \/ repeat_input \in ParseInputs
       \/ repeat_input \in AnalyzeInputs
    /\ history = <<>>
    /\ vectorizer \in {NotFitted(build) : build \in Builds}
    /\ calls = <<>>
    /\ ScoreIdle
    /\ ParseIdle
    /\ SkillIdle
    /\ NameIdle
    /\ StoreIdle
    /\ WalkIdle
    /\ TableIdle

\* the lines of the text vary
InitWalk ==
    /\ walk_lines \in SeqsUpTo(WalkLineTexts, MaxWalkLines)
    /\ walk_result = [experience |-> <<>>, total_years |-> 0]
    /\ walk_pc = "input"
    /\ ScoreIdle
    /\ ParseIdle
    /\ SkillIdle
    /\ NameIdle
    /\ StoreIdle
    /\ SharedIdle
    /\ RepeatIdle
    /\ TableIdle

\* the two tables are empty
InitTables ==
    /\ TableIdle
    /\ ScoreIdle
    /\ ParseIdle
    /\ SkillIdle
    /\ NameIdle
    /\ StoreIdle
    /\ SharedIdle
    /\ RepeatIdle
    /\ WalkIdle

(***************************************************************************)
(* Actions                                                                 *)
(***************************************************************************)
\* MatchingEngine.calculate_match_score(candidate, job)
CalculateMatchScore ==
    /\ phase = "input"
    /\ match_scores' = CalculateMatchScoreOf(candidate, job)
    /\ phase' = "scored"
    /\ UNCHANGED <<candidate, job, status, screening_notes>>
    /\ UNCHANGED notScoreVars

\* MatchingEngine.screen_candidate(candidate, job, match_scores)
ScreenCandidate ==
    /\ phase \in {"scored", "given"}
    /\ LET r == ScreenCandidateOf(candidate, job, match_scores)
       IN  /\ status' = r.status
           /\ screening_notes' = r.screening_notes
           /\ phase' = IF r.raises THEN "raised" ELSE "screened"
    /\ UNCHANGED <<candidate, job, match_scores>>
    /\ UNCHANGED notScoreVars

\* CVParserService.parse_cv(text)
ParseCv ==
    /\ parse_pc = "input"
    /\ LET r == ParseCvOf(extractors, section, current_year)
       IN  /\ profile' = r.profile
           /\ parse_pc' = IF r.raises THEN "raised" ELSE "returned"
    /\ date_ranges' = ExtractDateRanges(section, current_year)
    /\ UNCHANGED <<section, current_year, extractors, exp_result, total_calls>>
    /\ UNCHANGED notParseVars

\* CVParserService.extract_experience(text)
ExtractExperienceCall ==
    /\ parse_pc = "input"
    /\ exp_result' = ExtractExperience(extractors, section, current_year)
    /\ date_ranges' = ExtractDateRanges(section, current_year)
    /\ parse_pc' = "extracted"
    /\ UNCHANGED <<section, current_year, extractors, profile, total_calls>>
    /\ UNCHANGED notParseVars

\* CVParserService.extract_experience(text), on the lines of the text
ExtractExperienceWalk ==
    /\ walk_pc = "input"
    /\ walk_result' = ExtractExperienceOf(walk_lines, current_year)
    /\ walk_pc' = "returned"
    /\ UNCHANGED walk_lines
    /\ UNCHANGED notWalkVars

\* the id the next candidate row gets
NextCandidateId ==
    CHOOSE id \in CandidateIds :
        /\ candidate_table[id].status = "absent"
        /\ \A other \in CandidateIds :
               candidate_table[other].status = "absent" => id <= other

\* CandidateService.create_candidate(candidate_data)
CreateCandidate(candidate_data) ==
    /\ \E id \in CandidateIds : candidate_table[id].status = "absent"
    /\ LET created == CreateCandidateOn(candidate_table, NextCandidateId, candidate_data)
       IN  /\ candidate_table' = created.table
           /\ last_op' = Logged("create_candidate", NextCandidateId,
                                candidate_data.extraction_status, created.error, {},
                                match_table, match_table)
    /\ UNCHANGED match_table
    /\ UNCHANGED notTableVars

\* upload_cv from create_candidate on: the candidate is created and, when
\* that worked, calculate_matches is called inside a try
UploadCv(candidate_data) ==
    /\ \E id \in CandidateIds : candidate_table[id].status = "absent"
    /\ LET created == CreateCandidateOn(candidate_table, NextCandidateId, candidate_data)
           matched == MatchesOn(Database, created.table, match_table, NextCandidateId)
       IN  /\ candidate_table' = created.table
           /\ match_table' = IF created.error THEN match_table ELSE matched.rows
           /\ last_op' = Logged("upload_cv", NextCandidateId,
                                candidate_data.extraction_status,
                                created.error \/ matched.raises,
                                IF created.error THEN {} ELSE matched.wrote,
                                match_table,
                                IF created.error THEN match_table ELSE matched.rows)
    /\ UNCHANGED notTableVars

\* CandidateService.update_candidate_status(candidate_id, status)
UpdateCandidateStatus(id, new_status) ==
    /\ LET updated == UpdateCandidateStatusOn(candidate_table, id, new_status)
       IN  /\ candidate_table' = updated.table
           /\ last_op' = Logged("update_candidate_status", id, "", updated.error, {},
                                match_table, match_table)
    /\ UNCHANGED match_table
    /\ UNCHANGED notTableVars

\* MatchingService.calculate_matches(candidate_id), as one call
CalculateMatches(id) ==
    /\ LET matched == MatchesOn(Database, candidate_table, match_table, id)
       IN  /\ match_table' = matched.rows
           /\ last_op' = Logged("calculate_matches", id, "", matched.raises,
                                matched.wrote, match_table, matched.rows)
    /\ UNCHANGED candidate_table
    /\ UNCHANGED notTableVars

\* MatchingService.calculate_single_match(candidate_id, job_id), as one call
CalculateSingleMatch(id, job_id) ==
    /\ LET matched == SingleMatchOn(Database, candidate_table, match_table, id, job_id)
       IN  /\ match_table' = matched.rows
           /\ last_op' = Logged("calculate_single_match", id, "", matched.raises,
                                matched.wrote, match_table, matched.rows)
    /\ UNCHANGED candidate_table
    /\ UNCHANGED notTableVars

\* CVParserService._calculate_total_experience(date_ranges)
CalculateTotalExperienceCall ==
    /\ parse_pc = "ranges"
    /\ Len(total_calls) < MaxTotalCalls
    /\ total_calls' = Append(total_calls,
                             [ranges |-> date_ranges,
                              total |-> CalculateTotalExperience(date_ranges)])
    /\ UNCHANGED <<section, current_year, extractors, date_ranges, exp_result,
                   profile, parse_pc>>
    /\ UNCHANGED notParseVars

\* the caller puts the ranges in another order between two calls
Reorder ==
    /\ parse_pc = "ranges"
    /\ Len(total_calls) = 1
    /\ \E p \in Orders(Len(date_ranges)) :
           /\ \E i \in 1..Len(date_ranges) : p[i] # i
           /\ date_ranges' = [i \in 1..Len(date_ranges) |-> date_ranges[p[i]]]
    /\ UNCHANGED <<section, current_year, extractors, exp_result, profile,
                   parse_pc, total_calls>>
    /\ UNCHANGED notParseVars

\* SkillAnalyzer.analyze_skills(text)
AnalyzeSkills ==
    /\ skill_pc = "input"
    /\ skills_list' = AnalyzeSkillsOf(cv_text)
    /\ skill_pc' = "returned"
    /\ UNCHANGED cv_text
    /\ UNCHANGED notSkillVars

\* CVParserService._extract_name(text)
ExtractName ==
    /\ name_pc = "input"
    /\ name_result' = ExtractNameOf(name_text, person_entities)
    /\ name_pc' = "returned"
    /\ UNCHANGED <<name_text, person_entities>>
    /\ UNCHANGED notNameVars

\* calculate_matches up to its loop: the candidate is there (the one
\* candidate always is) and complete, or ValueError; then the active jobs
CalculateMatchesBegin(r) ==
    /\ requests[r].pc = "call"
    /\ \E row \in CandidateRows :
           requests' = [requests EXCEPT ![r] =
               IF row.status # "completed" THEN [@ EXCEPT !.pc = "raised"]
               ELSE [@ EXCEPT !.todo = ActiveJobs, !.pc = "fetch"]]
    /\ UNCHANGED match_results
    /\ UNCHANGED notStoreVars

\* calculate_single_match up to the existence check: fetch the candidate
\* and the job, calculate_match_score, screen_candidate
SingleMatchScore(r) ==
    /\ requests[r].pc = "fetch"
    /\ \E row \in CandidateRows :
           LET jb == JobDicts[Head(requests[r].todo)]
               scores == CalculateMatchScoreOf(row.dict, jb)
               screened == ScreenCandidateOf(row.dict, jb, scores)
           IN  requests' = [requests EXCEPT ![r] =
                   IF row.status # "completed" \/ screened.raises
                   THEN AfterRaise(@)
                   ELSE [@ EXCEPT !.scored = [match_scores |-> scores,
                                              status |-> screened.status,
                                              screening_notes |-> screened.screening_notes],
                                  !.pc = "check"]]
    /\ UNCHANGED match_results
    /\ UNCHANGED notStoreVars

\* the existence check: .first() of the committed rows of the pair
SingleMatchCheck(r) ==
    /\ requests[r].pc = "check"
    /\ LET found == RowsOf(match_results, CandidateId, Head(requests[r].todo))
       IN  \E existing \in (IF found = {} THEN {{}} ELSE {{row.id} : row \in found}) :
               requests' = [requests EXCEPT ![r].existing = existing,
                                            ![r].pc = "write"]
    /\ UNCHANGED match_results
    /\ UNCHANGED notStoreVars

\* the update of the row found or the add of a new one, and the commit
SingleMatchCommit(r) ==
    /\ requests[r].pc = "write"
    /\ match_results' = Committed(match_results, requests[r].existing, r,
                                  CandidateId, Head(requests[r].todo),
                                  requests[r].scored)
    /\ requests' = [requests EXCEPT ![r] = AfterJob(@)]
    /\ UNCHANGED notStoreVars

\* calculate_match_score on thread t up to the fit of the idf: the whole
\* call when the vectorizer is not reached or the counting raises
ScoreBegin(t) ==
    /\ calls[t].pc = "call"
    /\ LET begun == BeginOn(vectorizer, calls[t].cand, calls[t].jb)
       IN  /\ vectorizer' = begun.vectorizer
           /\ calls' = [calls EXCEPT
                  ![t].pc = IF begun.returned THEN "returned" ELSE "fit",
                  ![t].X = begun.X,
                  ![t].match_scores = begun.match_scores]
    /\ UNCHANGED notSharedVars

\* self._tfidf.fit(X) inside fit_transform, on thread t
VectorizerFit(t) ==
    /\ calls[t].pc = "fit"
    /\ vectorizer' = FitOn(vectorizer, calls[t].X)
    /\ calls' = [calls EXCEPT ![t].pc = "transform"]
    /\ UNCHANGED notSharedVars

\* self._tfidf.transform(X) inside fit_transform, and the rest of
\* calculate_match_score, on thread t
VectorizerTransform(t) ==
    /\ calls[t].pc = "transform"
    /\ LET ended == TransformOn(vectorizer, calls[t].X, calls[t].cand, calls[t].jb)
       IN  calls' = [calls EXCEPT
               ![t].transformed = ended.transformed,
               ![t].pc = IF ended.raises THEN "raised" ELSE "returned",
               ![t].match_scores = ended.match_scores]
    /\ UNCHANGED vectorizer
    /\ UNCHANGED notSharedVars

\* calculate_match_score and then screen_candidate, once more on the same
\* engine
MatchScoreAgain ==
    /\ repeat_input.op = "score"
    /\ Len(history) < MaxRepeats
    /\ LET r == ScoreAndScreenOn(ScoreCallOn(vectorizer, repeat_input.cand,
                                             repeat_input.jb),
                                 repeat_input.cand, repeat_input.jb)
       IN  /\ vectorizer' = r.vectorizer
           /\ history' = Append(history, [now |-> now, output |-> r.output])
    /\ UNCHANGED <<now, repeat_input>>
    /\ UNCHANGED notRepeatVars

\* parse_cv once more on the same text
ParseCvAgain ==
    /\ repeat_input.op = "parse"
    /\ Len(history) < MaxRepeats
    /\ history' = Append(history,
           [now |-> now,
            output |-> ParseCvOf(repeat_input.ex, repeat_input.tokens,
                                 CurrentYear(now))])
    /\ UNCHANGED <<now, repeat_input, vectorizer>>
    /\ UNCHANGED notRepeatVars

\* analyze_skills once more on the same text
AnalyzeSkillsAgain ==
    /\ repeat_input.op = "analyze"
    /\ Len(history) < MaxRepeats
    /\ history' = Append(history,
           [now |-> now, output |-> AnalyzeSkillsOf(repeat_input.text)])
    /\ UNCHANGED <<now, repeat_input, vectorizer>>
    /\ UNCHANGED notRepeatVars

\* time passes between two calls
TimePasses ==
    /\ repeat_input.op # ""
    /\ \E later \in Clocks : Later(later, now) /\ now' = later
    /\ UNCHANGED <<repeat_input, history, vectorizer>>
    /\ UNCHANGED notRepeatVars

NextScore == CalculateMatchScore \/ ScreenCandidate
NextParse == ParseCv \/ ExtractExperienceCall
NextTotal == CalculateTotalExperienceCall \/ Reorder
NextAnalyze == AnalyzeSkills
NextName == ExtractName
NextStore ==
    \/ \E r \in Requests : CalculateMatchesBegin(r)
    \/ \E r \in Requests : SingleMatchScore(r)
    \/ \E r \in Requests : SingleMatchCheck(r)
    \/ \E r \in Requests : SingleMatchCommit(r)

NextShared ==
    \/ \E t \in Threads : ScoreBegin(t)
    \/ \E t \in Threads : VectorizerFit(t)
    \/ \E t \in Threads : VectorizerTransform(t)

NextRepeat == MatchScoreAgain \/ ParseCvAgain \/ AnalyzeSkillsAgain \/ TimePasses

NextWalk == ExtractExperienceWalk
NextTables ==
    \/ \E candidate_data \in CandidateData : CreateCandidate(candidate_data)
    \/ \E candidate_data \in CandidateData : UploadCv(candidate_data)
    \/ \E id \in CandidateIds, new_status \in StatusArguments :
           UpdateCandidateStatus(id, new_status)
    \/ \E id \in CandidateIds : CalculateMatches(id)
    \/ \E id \in CandidateIds, job_id \in JobArguments :
           CalculateSingleMatch(id, job_id)

Init ==
    \/ InitScore \/ InitParse \/ InitTotal \/ InitAnalyze \/ InitName
    \/ InitStore \/ InitShared \/ InitRepeat \/ InitWalk \/ InitTables
Next ==
    \/ NextScore \/ NextParse \/ NextTotal \/ NextAnalyze \/ NextName
    \/ NextStore \/ NextShared \/ NextRepeat \/ NextWalk \/ NextTables

SpecScore == InitScore /\ [][NextScore]_vars
SpecParse == InitParse /\ [][NextParse]_vars
SpecTotal == InitTotal /\ [][NextTotal]_vars
SpecAnalyze == InitAnalyze /\ [][NextAnalyze]_vars
SpecName == InitName /\ [][NextName]_vars
SpecStore == InitStore /\ [][NextStore]_vars
SpecShared == InitShared /\ [][NextShared]_vars
SpecRepeat == InitRepeat /\ [][NextRepeat]_vars
SpecWalk == InitWalk /\ [][NextWalk]_vars
SpecTables == InitTables /\ [][NextTables]_vars
Spec == Init /\ [][Next]_vars

(***************************************************************************)
(* Properties of the MatchingEngine                                        *)
(***************************************************************************)
Statuses == {"Qualified", "Potentially Qualified", "Not Qualified"}

\* C1: screen_candidate returns exactly one status: Qualified iff
\* overall >= 70 and skill >= 60; otherwise Potentially Qualified iff
\* overall >= 50 or (overall >= 40 and skill >= 50); otherwise Not Qualified.
\* (72, 65) is Qualified, (55, 40) Potentially Qualified, overall 30 Not
\* Qualified.
C1_StatusByThresholds ==
    phase = "screened" =>
        LET overall == match_scores.match_score
            skill == match_scores.skill_match_score
            qualified == overall >= 7000 /\ skill >= 6000
            potential == overall >= 5000 \/ (overall >= 4000 /\ skill >= 5000)
        IN  /\ status \in Statuses
            /\ (status = "Qualified") <=> qualified
            /\ (status = "Potentially Qualified") <=> (~qualified /\ potential)
            /\ (status = "Not Qualified") <=> (~qualified /\ ~potential)
            /\ (overall = 7200 /\ skill = 6500) => status = "Qualified"
            /\ (overall = 5500 /\ skill = 4000) => status = "Potentially Qualified"
            /\ overall = 3000 => status = "Not Qualified"

\* screen_candidate has classified a candidate exactly on the two
\* thresholds of Qualified
C1_Witness ==
    /\ phase = "screened"
    /\ match_scores.match_score = 7000
    /\ match_scores.skill_match_score = 6000
    /\ status = "Qualified"

\* C2: calculate_match_score returns four scores within [0, 100], and
\* match_score is 0.5 * skill + 0.3 * experience + 0.2 * education rounded
\* to 2 decimals: it is a hundredth at most half a hundredth away from the
\* weighted sum.
C2_ScoresInRangeAndWeighted ==
    phase = "scored" =>
        LET s == match_scores.skill_match_score
            e == match_scores.experience_match_score
            d == match_scores.education_match_score
            diff == 10 * match_scores.match_score - (5 * s + 3 * e + 2 * d)
        IN  /\ match_scores.match_score \in 0..10000
            /\ s \in 0..10000
            /\ e \in 0..10000
            /\ d \in 0..10000
            /\ diff <= 5
            /\ 0 - diff <= 5

\* a result whose three component scores differ and lie strictly inside
\* the range, and whose weighted sum is no whole hundredth
C2_Witness ==
    /\ phase = "scored"
    /\ match_scores.skill_match_score = 1667
    /\ match_scores.experience_match_score = 8000
    /\ match_scores.education_match_score = 7000

\* the lower-cased names C3 speaks about
C3_CandidateNames == MapSeq(LAMBDA sk : Lower(sk.name), candidate.skills)

\* a job skill is covered: it is, ignoring case, a substring of a candidate
\* skill name, or a candidate skill name is a substring of it
C3_Covered(job_skill) ==
    \E i \in 1..Len(C3_CandidateNames) :
        \/ IsSubstring(Lower(job_skill), C3_CandidateNames[i])
        \/ IsSubstring(C3_CandidateNames[i], Lower(job_skill))

C3_CoveredCount(job_skills) == CountSeq(C3_Covered, job_skills)

C4_ExperienceScore ==
    (/\ phase = "scored"
     /\ candidate.total_experience_years >= 0
     /\ job.min_experience_years >= 0) =>
        LET c == candidate.total_experience_years
            r == job.min_experience_years
            e == match_scores.experience_match_score
            \* r times the exact score, in hundredths
            upper == 8000 * r + 95 * (100 * c - 80 * r)
            lower == 10000 * c
        IN  /\ r = 0 => e = 10000
            /\ (r > 0 /\ c = 0) => e = 0
            /\ (r > 0 /\ c >= r) => e = 10000
            /\ (c > 0 /\ c < r /\ 5 * c >= 4 * r) =>
                   /\ 2 * e * r <= 2 * upper + r
                   /\ 2 * e * r >= 2 * upper - r
                   /\ e <= 10000
            /\ (c > 0 /\ 5 * c < 4 * r) =>
                   /\ 2 * e * r <= 2 * lower + r
                   /\ 2 * e * r >= 2 * lower - r
            /\ (c = 10 /\ r = 5) => e = 10000
            /\ (r > 0 /\ 5 * c = 4 * r) => e = 8000

\* a candidate with nine of the ten years asked for
C4_Witness ==
    /\ phase = "scored"
    /\ candidate.total_experience_years = 9
    /\ job.min_experience_years = 10
    /\ match_scores.experience_match_score = 8950

\* the ordinal of each level string of the inputs, read off the table of
\* the engine; 0 where the string names no level of the table
C5_Ordinal(str) ==
    CASE str \in {"High School"} -> 1
      [] str \in {"Diploma"} -> 2
      [] str \in {"Associate"} -> 3
      [] str \in {"Bachelor's"} -> 4
      [] str \in {"Master", "Master's"} -> 5
      [] str \in {"PhD"} -> 6
      [] OTHER -> 0

\* C5: the education score is 100 if the job requires no level; 0 if the
\* candidate has no education records; 50 if the required level is in no
\* table; otherwise, with M the candidate's maximum ordinal and R the
\* required one: 20 if no level of the candidate is recognised, 100 if
\* M >= R, 70 if M = R - 1, 40 if M = R - 2, 20 if M < R - 2.
C5_EducationScore ==
    phase = "scored" =>
        LET d == match_scores.education_match_score
            R == C5_Ordinal(job.education_level)
            levels == {C5_Ordinal(candidate.education[i].degree) :
                          i \in 1..Len(candidate.education)}
            M == CHOOSE m \in levels : \A x \in levels : x <= m
        IN  IF job.education_level = "" THEN d = 10000
            ELSE IF Len(candidate.education) = 0 THEN d = 0
            ELSE IF R = 0 THEN d = 5000
            ELSE IF M = 0 THEN d = 2000
            ELSE /\ M >= R => d = 10000
                 /\ M = R - 1 => d = 7000
                 /\ M = R - 2 => d = 4000
                 /\ M < R - 2 => d = 2000

\* a Diploma followed by a Bachelor's, against a Master's requirement
C5_Witness ==
    /\ phase = "scored"
    /\ Len(candidate.education) = 2
    /\ candidate.education[1].degree = "Diploma"
    /\ candidate.education[2].degree = "Bachelor's"
    /\ job.education_level = "Master's"
    /\ match_scores.education_match_score = 7000

(***************************************************************************)
(* Properties of the CVParserService                                       *)
(***************************************************************************)
\* the years [y, y + 1) covered by a range that runs forward
C6_CoveredYears ==
    {y \in 1900..2100 : \E i \in 1..Len(date_ranges) :
        date_ranges[i][1] <= y /\ y < date_ranges[i][2]}

\* C6: for every list of ranges _extract_date_ranges produces, ranges
\* written end before start included, the total of
\* _calculate_total_experience never exceeds the sum of the lengths
\* end - start of the ranges, and a period covered by several overlapping
\* or adjacent ranges is counted once.
C6_TotalWithinSum ==
    (parse_pc = "extracted" /\ ~exp_result.raises /\ Len(section) > 0) =>
        /\ exp_result.total_years
               <= SumSeq(MapSeq(LAMBDA r : r[2] - r[1], date_ranges))
        /\ (\A i \in 1..Len(date_ranges) : date_ranges[i][1] <= date_ranges[i][2])
               => exp_result.total_years = Cardinality(C6_CoveredYears)

\* C7: total_experience_years of every profile returned by parse_cv (and
\* of every result of extract_experience) is an integer >= 0.
C7_TotalNonNegative ==
    /\ parse_pc = "returned" => profile.total_experience_years \in Nat
    /\ (parse_pc = "extracted" /\ ~exp_result.raises) => exp_result.total_years \in Nat

ProfileKeys ==
    {"name", "email", "phone", "education", "experience",
     "total_experience_years", "extraction_status", "extraction_errors"}

\* C8: parse_cv never raises, whichever of the contact, education and
\* experience extractions throws; the profile it returns has the keys name,
\* email, phone, education, experience, total_experience_years,
\* extraction_status and extraction_errors, and its extraction_status is
\* success, partial or failed.
C8_ParseNeverRaises ==
    /\ parse_pc # "raised"
    /\ parse_pc = "returned" =>
           /\ ProfileKeys \subseteq DOMAIN profile
           /\ profile.extraction_status \in {"success", "partial", "failed"}

\* parse_cv has returned although the contact, the education and the
\* experience extraction all raised
C8_Witness ==
    /\ parse_pc = "returned"
    /\ extractors.name.raises
    /\ extractors.education.raises
    /\ extractors.experience.raises
    /\ Len(section) > 0
    /\ profile.extraction_status = "failed"

\* C9: in every parse_cv result, name and email both null give
\* extraction_status failed, and 3 or more extraction_errors give
\* extraction_status failed.
C9_FailurePolicy ==
    parse_pc = "returned" =>
        /\ (profile.name = "" /\ profile.email = "")
               => profile.extraction_status = "failed"
        /\ Len(profile.extraction_errors) >= 3
               => profile.extraction_status = "failed"

\* a result with no name and no email, nothing having raised
C9_Witness ==
    /\ parse_pc = "returned"
    /\ ~extractors.email.raises /\ ~extractors.phone.raises /\ ~extractors.name.raises
    /\ ~extractors.education.raises
    /\ profile.name = "" /\ profile.email = ""
    /\ profile.phone # ""
    /\ profile.extraction_status = "failed"

\* the sub-extractions that raised on this text
C10_Raised ==
    {f \in {"email", "phone", "name", "education"} : extractors[f].raises}
    \cup (IF extractors.experience.raises /\ Len(section) > 0
          THEN {"experience"} ELSE {})

\* C10: every sub-extraction (email, phone, name, education, experience)
\* is guarded on its own: when one of them raises, the values the others
\* produced are still in the returned profile; a failure of the name
\* extraction does not discard an email or a phone already extracted.
C10_IndependentGuards ==
    parse_pc = "returned" =>
        /\ ~extractors.email.raises => profile.email = extractors.email.value
        /\ ~extractors.phone.raises => profile.phone = extractors.phone.value
        /\ ~extractors.name.raises => profile.name = extractors.name.value
        /\ ~extractors.education.raises => profile.education = extractors.education.value
        /\ (~extractors.experience.raises /\ Len(section) > 0)
               => profile.experience = extractors.experience.value

(***************************************************************************)
(* Properties of the SkillAnalyzer                                         *)
(***************************************************************************)
\* the category the table of canonical names holds for a skill: the last
\* category that declares it
C11_CanonicalCategory(name) ==
    CASE name \in {"Python", "JavaScript", "Rust"} -> "programming_languages"
      [] name = "Git" -> "tools"
      [] name \in {"AWS", "Google Cloud", "GCP"} -> "cloud_platforms"

\* C11: analyze_skills returns at most one record per canonical skill name,
\* compared case-insensitively, and a skill found by the canonical-name
\* pass is not replaced by the alias pass: its record is the one the first
\* pass stored, with the category of the table of canonical names.
C11_OneRecordFirstWins ==
    skill_pc = "returned" =>
        /\ \A i, j \in 1..Len(skills_list) :
               Lower(skills_list[i].name) = Lower(skills_list[j].name) => i = j
        /\ \A i \in 1..Len(skills_list) :
               Search(Lower(skills_list[i].name), Lower(cv_text)) =>
                   skills_list[i].category = C11_CanonicalCategory(skills_list[i].name)

\* a text that names AWS, which both passes match and the two tables file
\* under different categories, next to JavaScript and its alias
C11_Witness ==
    /\ skill_pc = "returned"
    /\ cv_text = "AWS js JavaScript"
    /\ Len(skills_list) = 2
    /\ skills_list[1].name = "JavaScript"
    /\ skills_list[2].name = "AWS"
    /\ skills_list[2].category = "cloud_platforms"

\* the place of a canonical name in the declaration order of the taxonomy
C12_Declared(name) ==
    CHOOSE i \in 1..Len(TaxonomyItems) :
        /\ TaxonomyItems[i].name = name
        /\ \A j \in 1..(i - 1) : TaxonomyItems[j].name # name

\* C12: the list analyze_skills returns is sorted by non-increasing score,
\* and two records of equal score are in the declaration order of the
\* taxonomy, also when one of them was found through an alias only.
C12_SortedTiesDeclared ==
    skill_pc = "returned" =>
        \A i, j \in 1..Len(skills_list) :
            i < j =>
                \/ skills_list[i].score > skills_list[j].score
                \/ /\ skills_list[i].score = skills_list[j].score
                   /\ C12_Declared(skills_list[i].name) < C12_Declared(skills_list[j].name)

\* C20: the action-verb bonus of calculate_skill_score is +10 once per
\* skill: 10 when a mention has an action verb in the 150 characters before
\* it, however many mentions do, and 0 when none has.
C20_VerbBonusOnce ==
    skill_pc = "returned" =>
        \A i \in 1..Len(skills_list) :
            LET name == Lower(skills_list[i].name)
                lowered == Lower(cv_text)
                starts == Mentions(name, lowered)
                some_verb ==
                    \E k \in 1..Len(starts), verb \in action_verbs :
                        IsSubstring(verb, Context(lowered, starts[k], Len(name), 150, 0))
                bonus == IF some_verb THEN 1000 ELSE 0
            IN  skills_list[i].score
                    = Max(0, Min(10000, SkillScoreBase(skills_list[i].name, cv_text) + bonus))

(***************************************************************************)
(* Properties of the MatchingEngine on missing fields                      *)
(***************************************************************************)
\* a numeric key is missing from a dict: absent, or None
C16_Missing(d, key) == key \in d.absent \/ key \in d.nulls

\* C16: the engine never raises on missing numeric fields: with
\* min_experience_years absent or None in the job, or total_experience_years
\* absent or None in the candidate, calculate_match_score and
\* screen_candidate return, the missing number counting as zero.
C16_MissingNumbersNeverRaise ==
    /\ phase # "raised"
    /\ (phase \in {"scored", "screened"} /\ C16_Missing(job, "min_experience_years"))
           => match_scores.experience_match_score = 10000
    /\ (/\ phase \in {"scored", "screened"}
        /\ C16_Missing(candidate, "total_experience_years")
        /\ ~C16_Missing(job, "min_experience_years")
        /\ job.min_experience_years > 0)
           => match_scores.experience_match_score = 0

\* the ordinal of the level of an education entry
C19_LevelOrdinal(level) ==
    CASE level = "Diploma" -> 2
      [] level = "Associate's" -> 3
      [] level = "Bachelor's" -> 4
      [] level = "Master's" -> 5
      [] level = "PhD" -> 6
      [] OTHER -> 0

\* C19: the education score depends on the education entries through their
\* level only: an entry the extractor labels Bachelor's, Master's or PhD
\* counts at the ordinal 4, 5 or 6 of that level, whatever its degree text,
\* so that the score against a required level of the table is the one the
\* maximum of these ordinals gives.
C19_ScoreByLevel ==
    (/\ phase = "scored"
     /\ Len(candidate.education) > 0
     /\ C5_Ordinal(job.education_level) > 0) =>
        LET d == match_scores.education_match_score
            R == C5_Ordinal(job.education_level)
            levels == {C19_LevelOrdinal(candidate.education[i].level) :
                          i \in 1..Len(candidate.education)}
            M == CHOOSE m \in levels : \A x \in levels : x <= m
        IN  /\ M = 0 => d = 2000
            /\ (M > 0 /\ M >= R) => d = 10000
            /\ (M > 0 /\ M = R - 1) => d = 7000
            /\ (M > 0 /\ M = R - 2) => d = 4000
            /\ (M > 0 /\ M < R - 2) => d = 2000

(***************************************************************************)
(* Properties of _calculate_total_experience                               *)
(***************************************************************************)
\* two lists hold the same ranges, each as many times
C17_SameRanges(a, b) ==
    /\ Len(a) = Len(b)
    /\ \A r \in Range(a) \cup Range(b) :
           Cardinality({i \in 1..Len(a) : a[i] = r})
               = Cardinality({i \in 1..Len(b) : b[i] = r})

\* C17: _calculate_total_experience does not depend on the order of its
\* input: two calls on lists that hold the same (start_year, end_year)
\* ranges in different orders return the same total.
C17_OrderInvariant ==
    \A i, j \in 1..Len(total_calls) :
        C17_SameRanges(total_calls[i].ranges, total_calls[j].ranges)
            => total_calls[i].total = total_calls[j].total

\* two calls on three ranges, one inside another and one written end
\* before start, given in two different orders
C17_Witness ==
    /\ Len(total_calls) = 2
    /\ total_calls[1].ranges = <<(<<2018, 2020>>), (<<2020, 2019>>), (<<2018, 2019>>)>>
    /\ total_calls[2].ranges = <<(<<2020, 2019>>), (<<2018, 2019>>), (<<2018, 2020>>)>>
    /\ total_calls[1].total = 2
    /\ total_calls[2].total = 2

(***************************************************************************)
(* Properties of _extract_name                                             *)
(***************************************************************************)
\* a line that gives an e-mail address or a telephone number
IsContactLine(line) == IsSubstring("@", line) \/ HasPhone(line)

\* the header starts with an upper-case line of 2 or more alphabetic
\* tokens, and a contact line follows it
C18_CapsHeader ==
    LET lines == SplitLines(name_text)
    IN  /\ name_pc = "returned"
        /\ Len(lines) >= 2
        /\ AllCapsLine(1, lines[1]) # ""
        /\ IsContactLine(lines[2])

RowCount(rows, job_id) == Cardinality(RowsOf(rows, CandidateId, job_id))

\* C15: whatever calls were made and however they interleaved, the table
\* holds at most one MatchResult for a (candidate_id, job_id) pair, and a
\* call for a pair that has a row leaves the number of its rows as it is.
C15_OneRowPerPair ==
    [][\A job_id \in Range(ActiveJobs) :
          /\ RowCount(match_results', job_id) <= 1
          /\ RowCount(match_results, job_id) = 1 =>
                 RowCount(match_results', job_id) = 1]_vars

(***************************************************************************)
(* Properties of concurrent scoring on the shared MatchingEngine           *)
(***************************************************************************)
\* the call of thread t is over, without an exception, and returned what
\* calculate_match_score returns for its candidate and job when run alone
C14_ReturnedAlone(t) ==
    /\ calls[t].pc = "returned"
    /\ calls[t].match_scores = CalculateMatchScoreOf(calls[t].cand, calls[t].jb)

C21_AllWindows(text, skill) ==
    LET skill_lower == Lower(skill)
        text_lower == Lower(text)
        starts == Mentions(skill_lower, text_lower)
    IN  UNION {YearsIn(Context(text_lower, starts[i], Len(skill_lower), 200, 200)) :
                  i \in 1..Len(starts)}

\* C21: the years of a skill are the largest number of years found in the
\* windows of all its mentions, None when no window holds one, whichever
\* mention comes first.
C21_MaxAcrossWindows ==
    skill_pc = "returned" =>
        \A i \in 1..Len(skills_list) :
            LET found == C21_AllWindows(cv_text, skills_list[i].name)
            IN  skills_list[i].years =
                    IF found = {} THEN NoYears ELSE Years(MaxOf(found))

\* the category the canonical-name pass reports for a name: the one
\* all_skills_lower holds under the lower-cased name
C22_CanonicalPassCategory(name) ==
    LET k == Lower(name)
        hit == CHOOSE i \in 1..Len(all_skills_lower) : all_skills_lower[i].key = k
    IN  all_skills_lower[hit].value.category

\* C22: the category of a record depends on the canonical name alone: a
\* skill found by the alias pass is reported under the category the
\* canonical-name pass reports for that name, also when the name is
\* declared under more than one category.
C22_CategoryByNameAlone ==
    skill_pc = "returned" =>
        \A i \in 1..Len(skills_list) :
            skills_list[i].category = C22_CanonicalPassCategory(skills_list[i].name)

(***************************************************************************)
(* Properties of the semantic bonus and of the status                      *)
(***************************************************************************)
\* the two documents calculate_match_score hands to the vectorizer
C26_Corpus == CorpusOf(candidate, job)

\* C26: the fit on the two skill texts keeps no term that occurs in both,
\* so the semantic bonus is 0 on every input: the skill score is the
\* coverage part alone, and it never exceeds 70.
C26_NoSemanticBonus ==
    phase = "scored" =>
        /\ UsesVectorizer(candidate, job) =>
               \A t \in Vocabulary(C26_Corpus) :
                   ~(t \in Range(C26_Corpus[1]) /\ t \in Range(C26_Corpus[2]))
        /\ match_scores.skill_match_score
               = SkillMatchGiven(candidate.skills, job.required_skills,
                                 job.preferred_skills, 0)
        /\ match_scores.skill_match_score <= 7000

\* a candidate and a job whose texts share the term python while the job
\* text holds another term, so that the fit succeeds: the score is the
\* coverage of one of the two required skills
C26_Witness ==
    /\ phase = "scored"
    /\ candidate.skills = <<[name |-> "Python"]>>
    /\ job.required_skills = <<"Python", "java">>
    /\ job.preferred_skills = <<>>
    /\ Vocabulary(C26_Corpus) # {}
    /\ match_scores.skill_match_score = 2500

\* C27: for a job without preferred skills the skill score stays below 60,
\* so calculate_match_score followed by screen_candidate never classifies
\* a candidate Qualified: the status is Potentially Qualified at best.
C27_NeverQualifiedWithoutPreferred ==
    job.preferred_skills = <<>> =>
        /\ phase = "scored" => match_scores.skill_match_score < 6000
        /\ (phase = "screened" /\ match_scores = CalculateMatchScoreOf(candidate, job)) =>
               status \in {"Potentially Qualified", "Not Qualified"}

\* a candidate who covers every required skill of a job without preferred
\* skills and has full experience and education scores
C27_Witness ==
    /\ phase = "screened"
    /\ job.preferred_skills = <<>>
    /\ job.required_skills = <<"python">>
    /\ match_scores = CalculateMatchScoreOf(candidate, job)
    /\ match_scores.skill_match_score = 5000
    /\ match_scores.match_score = 7500
    /\ status = "Potentially Qualified"

\* Not Qualified < Potentially Qualified < Qualified
C30_Rank(st) ==
    CASE st = "Not Qualified" -> 0
      [] st = "Potentially Qualified" -> 1
      [] st = "Qualified" -> 2

\* the scores with the three components given and match_score recomputed
C30_Recomputed(skill, experience, education) ==
    [match_score |-> OverallScore(skill, experience, education),
     skill_match_score |-> skill,
     experience_match_score |-> experience,
     education_match_score |-> education]

\* C30: the status is monotone in the component scores: when match_score
\* is the weighted sum of the components, screen_candidate on the same
\* candidate and job with any of the components lower returns a status
\* that is not higher.
C30_StatusMonotone ==
    (/\ phase = "screened"
     /\ match_scores = C30_Recomputed(match_scores.skill_match_score,
                                      match_scores.experience_match_score,
                                      match_scores.education_match_score)) =>
        \A skill \in ComponentGrid, experience \in ComponentGrid,
           education \in ComponentGrid :
            (/\ skill <= match_scores.skill_match_score
             /\ experience <= match_scores.experience_match_score
             /\ education <= match_scores.education_match_score) =>
                C30_Rank(ScreenCandidateOf(candidate, job,
                             C30_Recomputed(skill, experience, education)).status)
                    <= C30_Rank(status)

\* a screening on the boundary of the second branch: overall 46 with skill
\* 50 is Potentially Qualified, and with the skill score lowered to 40,
\* overall 41, the status is the lower Not Qualified
C30_Witness ==
    /\ phase = "screened"
    /\ match_scores = C30_Recomputed(5000, 7000, 0)
    /\ status = "Potentially Qualified"
    /\ ScreenCandidateOf(candidate, job, C30_Recomputed(4000, 7000, 0)).status
           = "Not Qualified"

(***************************************************************************)
(* Properties of screening_notes                                           *)
(***************************************************************************)
C25_Headers == <<"Strengths:", "Considerations:", "Gaps:">>
C25_LastLine == "Overall Match Score"

\* the place of a header in screening_notes, 0 when it is not there
C25_Place(header) ==
    IF \E i \in 1..Len(screening_notes) : screening_notes[i] = header
    THEN CHOOSE i \in 1..Len(screening_notes) : screening_notes[i] = header
    ELSE 0

\* the lines of the list under a header: those between it and the next
\* header or the score line
C25_Items(header) ==
    LET p == C25_Place(header)
        stops == {i \in (p + 1)..Len(screening_notes) :
                     screening_notes[i] \in Range(C25_Headers) \cup {C25_LastLine}}
    IN  IF p = 0 THEN {}
        ELSE {screening_notes[i] :
                 i \in (p + 1)..((CHOOSE m \in stops : \A x \in stops : m <= x) - 1)}

\* the frame of screening_notes: the summary of the status first, the score
\* line last, each header at most once and in the order Strengths,
\* Considerations, Gaps, and every line in between under one of them
C25_Frame ==
    /\ Len(screening_notes) >= 2
    /\ screening_notes[1] = ScreenSummary(status)
    /\ screening_notes[Len(screening_notes)] = C25_LastLine
    /\ \A i, j \in 1..Len(screening_notes) :
           (i # j /\ screening_notes[i] \in Range(C25_Headers)) =>
               screening_notes[i] # screening_notes[j]
    /\ \A a, b \in 1..3 :
           (a < b /\ C25_Place(C25_Headers[a]) > 0 /\ C25_Place(C25_Headers[b]) > 0) =>
               C25_Place(C25_Headers[a]) < C25_Place(C25_Headers[b])
    /\ \A i \in 2..(Len(screening_notes) - 1) :
           \/ screening_notes[i] \in Range(C25_Headers)
           \/ \E a \in 1..3 : screening_notes[i] \in C25_Items(C25_Headers[a])

\* what the entries are about
C25_Skill == match_scores.skill_match_score
C25_Experience == match_scores.experience_match_score
C25_Education == match_scores.education_match_score
C25_Required == Len(job.required_skills)
C25_Matched == SkillMatches(MapSeq(Lower, job.required_skills), C3_CandidateNames)
C25_AsksExperience == job.min_experience_years > 0
C25_AsksEducation == job.education_level # ""

\* the entries when(cond, text) of a list
C25_When(cond, entry) == IF cond THEN {entry} ELSE {}

\* C25: screening_notes is the summary, then the Strengths, Considerations
\* and Gaps lists in that order, each present iff non-empty, then the score
\* line; Strengths holds entries only for skill >= 70 and for all required
\* skills matched, Considerations only for skill in [50,70), coverage in
\* [70%,100%) and experience in [80,100), Gaps only for skill < 50,
\* coverage < 70%, experience < 80 and education < 70.
C25_NotesAsListed ==
    phase = "screened" =>
        /\ C25_Frame
        /\ \A a \in 1..3 : C25_Place(C25_Headers[a]) > 0 => C25_Items(C25_Headers[a]) # {}
        /\ C25_Items("Strengths:") \subseteq
               C25_When(C25_Skill >= 7000, "Strong skill match")
               \cup C25_When(C25_Required > 0 /\ C25_Matched = C25_Required,
                             "Has all required skills")
        /\ C25_Items("Considerations:") \subseteq
               C25_When(C25_Skill >= 5000 /\ C25_Skill < 7000, "Moderate skill match")
               \cup C25_When(/\ C25_Required > 0
                             /\ C25_Matched < C25_Required
                             /\ 10 * C25_Matched >= 7 * C25_Required,
                             "Has some required skills")
               \cup C25_When(C25_Experience >= 8000 /\ C25_Experience < 10000,
                             "Close to experience requirement")
        /\ C25_Items("Gaps:") \subseteq
               C25_When(C25_Skill < 5000, "Low skill match")
               \cup C25_When(C25_Required > 0 /\ 10 * C25_Matched < 7 * C25_Required,
                             "Missing key skills")
               \cup C25_When(C25_Experience < 8000, "Below experience requirement")
               \cup C25_When(C25_Education < 7000, "Does not meet education requirement")

\* C25, amended: the frame is as stated and a list is there iff it has an
\* entry; Strengths holds exactly the entries for skill >= 70, all
\* required skills matched, experience >= 100 and education >= 100,
\* Considerations those for skill in [50,70), coverage in [70%,100%),
\* experience in [80,100) and education in [70,100), Gaps those for
\* skill < 50, coverage < 70%, experience < 80 and education < 70; the
\* coverage entries need required skills, the experience entries
\* min_experience_years > 0, the education entries a required level.
C25_NotesWithAllEntries ==
    phase = "screened" =>
        /\ C25_Frame
        /\ \A a \in 1..3 : C25_Place(C25_Headers[a]) > 0 => C25_Items(C25_Headers[a]) # {}
        /\ C25_Items("Strengths:") =
               C25_When(C25_Skill >= 7000, "Strong skill match")
               \cup C25_When(C25_Required > 0 /\ C25_Matched = C25_Required,
                             "Has all required skills")
               \cup C25_When(C25_AsksExperience /\ C25_Experience >= 10000,
                             "Meets experience requirement")
               \cup C25_When(C25_AsksEducation /\ C25_Education >= 10000,
                             "Meets education requirement")
        /\ C25_Items("Considerations:") =
               C25_When(C25_Skill >= 5000 /\ C25_Skill < 7000, "Moderate skill match")
               \cup C25_When(/\ C25_Required > 0
                             /\ C25_Matched < C25_Required
                             /\ 10 * C25_Matched >= 7 * C25_Required,
                             "Has some required skills")
               \cup C25_When(/\ C25_AsksExperience
                             /\ C25_Experience >= 8000 /\ C25_Experience < 10000,
                             "Close to experience requirement")
               \cup C25_When(/\ C25_AsksEducation
                             /\ C25_Education >= 7000 /\ C25_Education < 10000,
                             "Education level close to requirement")
        /\ C25_Items("Gaps:") =
               C25_When(C25_Skill < 5000, "Low skill match")
               \cup C25_When(C25_Required > 0 /\ 10 * C25_Matched < 7 * C25_Required,
                             "Missing key skills")
               \cup C25_When(C25_AsksExperience /\ C25_Experience < 8000,
                             "Below experience requirement")
               \cup C25_When(C25_AsksEducation /\ C25_Education < 7000,
                             "Does not meet education requirement")

\* a screening with the three lists: a strength of experience, a
\* consideration of education, a gap of skills
C25_Witness ==
    /\ phase = "screened"
    /\ "Meets experience requirement" \in C25_Items("Strengths:")
    /\ "Education level close to requirement" \in C25_Items("Considerations:")
    /\ "Low skill match" \in C25_Items("Gaps:")

(***************************************************************************)
(* Properties of extraction_status                                         *)
(***************************************************************************)
\* C28: in every parse_cv result the status is failed iff name and email
\* are both null, partial iff one of them is there and extraction_errors
\* is not empty, success iff extraction_errors is empty; three errors
\* come only with name and email both null, so the rule of three errors
\* never changes the status.
C28_StatusByNameEmailErrors ==
    parse_pc = "returned" =>
        LET critical == profile.name = "" /\ profile.email = ""
            errors == profile.extraction_errors
        IN  /\ profile.extraction_status \in {"success", "partial", "failed"}
            /\ (profile.extraction_status = "failed") <=> critical
            /\ (profile.extraction_status = "partial")
                   <=> (~critical /\ Len(errors) > 0)
            /\ (profile.extraction_status = "success") <=> (Len(errors) = 0)
            /\ Len(errors) >= 3 => critical

\* the three extractions failed, the name after an email was found: the
\* result holds neither, and its status is failed by the first check
C28_Witness ==
    /\ parse_pc = "returned"
    /\ ~extractors.email.raises /\ extractors.email.value # ""
    /\ extractors.name.raises
    /\ Len(profile.extraction_errors) >= 3
    /\ profile.name = "" /\ profile.email = ""
    /\ profile.extraction_status = "failed"

(***************************************************************************)
(* Properties of extract_experience                                        *)
(***************************************************************************)
\* the stripped lines of the experience section of the text
C23_Lines ==
    MapSeq(Strip, ExtractSection(walk_lines, experience_keywords).lines)

\* the lines that start an entry, and those among them whose entry has a
\* title
C23_Starts == {i \in 1..Len(C23_Lines) : C23_Lines[i] # "" /\ StartsEntry(C23_Lines[i])}
C23_Titled ==
    {i \in C23_Starts :
        LooksLikeJobTitle(C23_Lines[i]) /\ ExtractJobTitle(C23_Lines[i]) # ""}

\* the lines after start i up to the next start: the other non-empty lines
C23_Following(i) ==
    LET later == {j \in C23_Starts : j > i}
        next == IF later = {} THEN Len(C23_Lines) + 1
                ELSE CHOOSE j \in later : \A k \in later : j <= k
    IN  SelectSeq(SubSeq(C23_Lines, i + 1, next - 1), LAMBDA line : line # "")

\* the k-th of the starts with a title, in text order
C23_Nth(k) ==
    CHOOSE i \in C23_Titled : Cardinality({j \in C23_Titled : j <= i}) = k

C24_Section ==
    SectionUpTo(walk_lines, experience_keywords, section_names \cup {"education"})

\* C24: the experience section ends at the next header-like line that
\* names another common section, so the total is derived from the ranges
\* inside it alone: the ranges under an Education header that follows the
\* experience section add nothing to total_experience_years.
C24_TotalFromExperienceOnly ==
    (walk_pc = "returned" /\ ~C24_Section.none) =>
        walk_result.total_years
            = CalculateTotalExperience(
                  ExtractDateRanges(SectionWords(C24_Section.lines), current_year))

(***************************************************************************)
(* Properties of the candidate status and the match results                *)
(***************************************************************************)
C29_MatchOps == {"calculate_matches", "calculate_single_match", "upload_cv"}

\* C29: over any sequence of create_candidate, update_candidate_status,
\* calculate_matches and calculate_single_match calls, a MatchResult is
\* created or updated only while the status of the candidate is
\* completed; a candidate created from a failed extraction gets the status
\* failed (partial and success give completed), and a match calculation
\* for a candidate whose status is not completed ends in an error and
\* writes nothing.
C29_WritesOnlyWhenCompleted ==
    last_op.op # "" =>
        LET stored == candidate_table[last_op.candidate_id]
        IN  /\ (last_op.wrote # {} \/ last_op.touched # {}) =>
                   /\ last_op.op \in C29_MatchOps
                   /\ stored.status = "completed"
                   /\ \A row \in last_op.touched :
                          row.candidate_id = last_op.candidate_id
            /\ (last_op.op \in C29_MatchOps /\ stored.status # "completed") =>
                   /\ last_op.error
                   /\ last_op.wrote = {}
                   /\ last_op.touched = {}
            /\ (last_op.op \in {"create_candidate", "upload_cv"}
                /\ stored.status # "absent") =>
                   stored.status = IF last_op.extraction_status = "failed"
                                      THEN "failed" ELSE "completed"

\* a candidate uploaded with a failed extraction, whose match calculation
\* was rejected, next to a candidate that has match results
C29_Witness ==
    /\ last_op.op = "upload_cv"
    /\ last_op.extraction_status = "failed"
    /\ last_op.error
    /\ candidate_table[last_op.candidate_id].status = "failed"
    /\ match_table # {}
    /\ \A row \in match_table : row.candidate_id # last_op.candidate_id

====
